---------------------------- MODULE Spec2Model ----------------------------
(***************************************************************************)
(* Layer & History engine of the image text composer.                      *)
(*                                                                         *)
(* The editor component (src/src/components/TextEditor.tsx) owns the layer *)
(* collection, the selection set, the undo/redo history with its cursor    *)
(* and one-shot replay flag, and the debounced autosave timer.  The canvas *)
(* (src/unnamed/part_001) reports clicks, drag completions and transform   *)
(* completions through setSelectedIds / setTextLayers.  The page           *)
(* (src/unnamed/part_000) mounts and unmounts the editor.  Uploaded fonts   *)
(* are loaded asynchronously and registered with the document, which       *)
(* outlives the editor.  A saved design is the JSON text of a record; the  *)
(* model keeps the text as the record's members, key and value.            *)
(*                                                                         *)
(* One action is one event handled by React: the handler's state updates   *)
(* and the passive effects that run after the commit (selection            *)
(* reconciliation, autosave scheduling) before the next event is handled.  *)
(*                                                                         *)
(* Layer ids are `text-${Date.now()}`; the model keeps the millisecond     *)
(* reading itself as the id (the prefix is a fixed injective decoration).  *)
(* Array indices are 0-based in the source and the cursor keeps that       *)
(* convention: the snapshot under the cursor is history[currentStep + 1].  *)
(*                                                                         *)
(* Coordinates are JavaScript numbers; the model keeps x and y as exact    *)
(* fractions [num, den] in lowest terms, so that a mean of whole numbers   *)
(* is the value the division yields (IEEE rounding is not modelled).       *)
(* Of the style fields of a layer the model keeps fill, fontWeight and the *)
(* colour and blur of the text shadow, and of the warp sliders radius and  *)
(* angle.  Angles are kept in degrees; the cosine and the sine of an       *)
(* angle other than 0 are kept as terms.  A warp path is the sequence of   *)
(* the commands and numbers of its SVG text; the empty path is <<>>.       *)
(***************************************************************************)
EXTENDS Integers, Sequences, FiniteSets, TLC

VARIABLES
    textLayers,        \* TextEditor.tsx:252  live layer collection (z-order)
    selectedIds,       \* TextEditor.tsx:253  selection set
    textStyle,         \* TextEditor.tsx:254  style template for new layers
    history,           \* TextEditor.tsx:259  sequence of snapshots
    currentStep,       \* TextEditor.tsx:260  cursor into history (0-based)
    isUndoRedoAction,  \* TextEditor.tsx:261  one-shot replay flag
    autosaveTimeout,   \* TextEditor.tsx:266  pending autosave timers, each with the data it writes
    storage,           \* localStorage['imageTextComposer']: <<>> or <<the stored text>>
    image,             \* props imageUrl / imageWidth / imageHeight of the session
    now,               \* the last reading of Date.now()
    lastOp,            \* observer: name of the last event handled
    took,              \* observer: the last event passed its handler's guards
    run,               \* observer: the current run of edits followed by undos
    gesture,           \* observer: the last canvas gesture and the replays after it,
                       \*           or the discard of a stored record by a mount
    nEvents,           \* observer: number of events handled so far
    documentFonts,     \* document.fonts: the family of every registered face, in order
    customFonts,       \* TextEditor.tsx:267  names of the uploaded fonts
    fontLoads,         \* FontFace.load() promises that are pending
    uploads,           \* ImageUploader.tsx:69  the calls of handleFile, each with its position
    error              \* ImageUploader.tsx:30  the message the upload page shows: <<>> or <<message>>

fontVars == <<documentFonts, customFonts, fontLoads>>

loaderVars == <<uploads, error>>

vars == <<textLayers, selectedIds, textStyle, history, currentStep, isUndoRedoAction,
          autosaveTimeout, storage, image, now,
          lastOp, took, run, gesture, nEvents, fontVars, loaderVars>>

-----------------------------------------------------------------------------
(* Program constants *)

\* TextEditor.tsx:371  `if (newHistory.length > 20)`
HistoryCap == 20
\* TextEditor.tsx:378  `Math.min(prev + 1, 19)`
MaxStepIndex == 19
\* TextEditor.tsx:606-607  position of a new layer
DefaultX == 50
DefaultY == 50
\* TextEditor.tsx:772-773  offset of a duplicate
DuplicateOffset == 20
\* part_000:52  maxSize={10}: the size limit of an image file, in MB
maxSize == 10
\* ImageUploader.tsx:44  1024 * 1024
BytesPerMB == 1048576

(* Bounds of the exploration *)

MaxEvents == 4      \* events in one behaviour of Spec
CapEvents == 24     \* events in one behaviour of CapSpec
LayerEvents == 4    \* events in one behaviour of LayerSpec
AlignEvents == 2    \* events in one behaviour of AlignSpec

\* Bounds of the input space of the reconciliation effect
MaxId == 3          \* ids are 1..MaxId
MaxLayers == 2      \* layers in a collection
RecRuns == 2        \* consecutive runs of the effect


DistributeEvents == 2   \* events in one behaviour of DistributeSpec

PersistEvents == 4      \* events other than timer expiries in one behaviour of PersistSpec

FontEvents == 5         \* events in one behaviour of FontSpec

PanelEvents == 2        \* events in one behaviour of PanelSpec

\* Calls of the image loader in one visit of the upload page
MaxUploads == 2


\* Events handled in one exploration of the warp and property inputs
WarpEvents == 2


\* Events handled after a stored record was loaded
LoadEvents == 4


\* A whole number as a coordinate
Num(n) == [num |-> n, den |-> 1]

\* Coordinates the layers of AlignSpec start at
AlignCoords == {10, 20, 30}
\* Style edits the panel can issue (property, value)
StyleEdits == {<<"fill", "#000000">>, <<"fontWeight", "bold">>}
\* Points a drag can end at (x, y)
DragPoints == {<<Num(10), Num(30)>>}
\* Values a transform can end with
TransformEnds == {[x |-> Num(10), y |-> Num(30), rotation |-> 90, scaleX |-> 2, scaleY |-> 1]}
\* Image identities (data url, width, height) the page can hand to the editor
Images == {[imageUrl |-> "a", imageWidth |-> 4, imageHeight |-> 3],
           [imageUrl |-> "b", imageWidth |-> 4, imageHeight |-> 3]}

-----------------------------------------------------------------------------
(* Pure helpers *)

Min(a, b) == IF a < b THEN a ELSE b

\* Mutant of LayerIds: the ids of every snapshot ever recorded count as
\* present, not only those of the given collection.
LayerIds_AnySnapshot(layers) ==
    {layers[i].id : i \in 1..Len(layers)}
        \cup UNION {{history[k][i].id : i \in 1..Len(history[k])} : k \in 1..Len(history)}

\* TextEditor.tsx:345  validIds = new Set(textLayers.map(layer => layer.id));
\* the same ids are the ones the canvas and the layer list render and offer
\* to a click (part_001:530, TextEditor.tsx:2404)
LayerIds(layers) == {layers[i].id : i \in 1..Len(layers)}

\* Mutant of ReconcileSelection: nothing is filtered out.
ReconcileSelection_KeepsAll(sel, layers) == sel

\* TextEditor.tsx:344-357  selection reconciliation effect
ReconcileSelection(sel, layers) == {id \in sel : id \in LayerIds(layers)}

\* TextEditor.tsx:313
hasSelection(sel) == Cardinality(sel) > 0

\* TextEditor.tsx:401-402
canUndo(step) == step > 0
canRedo(step, h) == step < Len(h) - 1

\* TextEditor.tsx:367  prev.slice(0, end) for end >= 0: the first end
\* entries, or all of them if there are fewer
Slice(prev, end) == SubSeq(prev, 1, Min(end, Len(prev)))

\* Mutant of AddToHistoryHistory: the oldest entry is never dropped.
AddToHistoryHistory_NoEvict(prev, step, newLayers) ==
    Append(Slice(prev, step + 1), newLayers)

\* TextEditor.tsx:366-376  the updater handed to setHistory
AddToHistoryHistory(prev, step, newLayers) ==
    LET newHistory == Append(Slice(prev, step + 1), newLayers)
    IN  IF Len(newHistory) > HistoryCap THEN Tail(newHistory) ELSE newHistory

\* Mutant of AddToHistoryStep: the cursor is not clamped.
AddToHistoryStep_NoClamp(prev) == prev + 1

\* TextEditor.tsx:378  the updater handed to setCurrentStep
AddToHistoryStep(prev) == Min(prev + 1, MaxStepIndex)

\* TextEditor.tsx:92-112  defaultTextStyle
defaultTextStyle ==
    [fill |-> "#ff0000", fontWeight |-> "normal",
     textShadow |-> [color |-> "#000000", blur |-> 0]]

\* TextEditor.tsx:608  the text of a new layer
DefaultText == "Double click to edit"

\* TextEditor.tsx:614-624  the warp and spacing-hint fields of a new layer
DefaultWarpRadius == 100
DefaultWarpAngle == 180
DefaultHintOpacity == [num |-> 3, den |-> 5]

\* Mutant of NewText: the layer takes the default style, not the template.
NewText_DefaultStyle(t, style) ==
    [id |-> t, x |-> Num(DefaultX), y |-> Num(DefaultY), text |-> DefaultText,
     fill |-> defaultTextStyle.fill, fontWeight |-> defaultTextStyle.fontWeight,
     textShadow |-> defaultTextStyle.textShadow,
     rotation |-> 0, scaleX |-> 1, scaleY |-> 1, locked |-> FALSE,
     isWarped |-> FALSE, warpPath |-> <<>>, warpPathType |-> "arc",
     warpRadius |-> DefaultWarpRadius, warpAngle |-> DefaultWarpAngle,
     spacingHintColor |-> "#3B82F6", spacingHintOpacity |-> DefaultHintOpacity]

\* TextEditor.tsx:604-627  the layer addText creates from the style template
NewText(t, style) ==
    [id |-> t, x |-> Num(DefaultX), y |-> Num(DefaultY), text |-> DefaultText,
     fill |-> style.fill, fontWeight |-> style.fontWeight,
     textShadow |-> style.textShadow,
     rotation |-> 0, scaleX |-> 1, scaleY |-> 1, locked |-> FALSE,
     isWarped |-> FALSE, warpPath |-> <<>>, warpPathType |-> "arc",
     warpRadius |-> DefaultWarpRadius, warpAngle |-> DefaultWarpAngle,
     spacingHintColor |-> "#3B82F6", spacingHintOpacity |-> DefaultHintOpacity]

\* TextEditor.tsx:678
DeleteLayers(layers, sel) == SelectSeq(layers, LAMBDA layer : layer.id \notin sel)

\* TextEditor.tsx:311, 745
SelectedLayers(layers, sel) == SelectSeq(layers, LAMBDA layer : layer.id \in sel)

\* TextEditor.tsx:310, 1364  the side panel with the layer tools and the
\* layer list is rendered while the first selected id is that of a layer
selectedText(sel, layers) == SelectedLayers(layers, sel) # <<>>

\* Array.prototype.findIndex by id, 1-based; 0 when no layer carries the id
\* (TextEditor.tsx:689, 704) -- find (TextEditor.tsx:718, 731, 767) returns
\* the layer at that index
FindIndex(layers, id) ==
    IF \E i \in 1..Len(layers) : layers[i].id = id
    THEN CHOOSE i \in 1..Len(layers) :
            /\ layers[i].id = id
            /\ \A j \in 1..(i - 1) : layers[j].id # id
    ELSE 0

\* Array.from(selectedIds)[0] of a selection of size 1
TheSelectedId(sel) == CHOOSE id \in sel : TRUE

\* A coordinate plus a whole number
Plus(a, n) == [num |-> a.num + n * a.den, den |-> a.den]

\* TextEditor.tsx:769-775
DuplicatedLayer(selectedLayer, t) ==
    [selectedLayer EXCEPT !.id = t,
                          !.x = Plus(selectedLayer.x, DuplicateOffset),
                          !.y = Plus(selectedLayer.y, DuplicateOffset),
                          !.locked = FALSE]

\* Mutant of ToggleLockLayers: every selected layer flips its own flag.
ToggleLockLayers_EachFlipped(layers, sel) ==
    [i \in 1..Len(layers) |->
        IF layers[i].id \in sel
        THEN [layers[i] EXCEPT !.locked = ~layers[i].locked]
        ELSE layers[i]]

\* TextEditor.tsx:691-694, 706-709  the layers at 1-based indices i and j
\* exchanged
SwapLayers(layers, i, j) ==
    [k \in 1..Len(layers) |->
        IF k = i THEN layers[j] ELSE IF k = j THEN layers[i] ELSE layers[k]]

\* TextEditor.tsx:720  textLayers.filter(layer => layer.id !== selectedId)
OtherLayers(layers, id) == SelectSeq(layers, LAMBDA layer : layer.id # id)

\* TextEditor.tsx:718-721  [...otherLayers, selectedLayer]
BringToFrontLayers(layers, id) ==
    Append(OtherLayers(layers, id), layers[FindIndex(layers, id)])

\* TextEditor.tsx:731-734  [selectedLayer, ...otherLayers]
SendToBackLayers(layers, id) ==
    <<layers[FindIndex(layers, id)]>> \o OtherLayers(layers, id)

\* Arithmetic of coordinates: n / d in lowest terms, d > 0
RECURSIVE GCD(_, _)
GCD(a, b) == IF b = 0 THEN a ELSE GCD(b, a % b)

Fraction(n, d) ==
    LET g == GCD(IF n < 0 THEN -n ELSE n, d)
    IN  [num |-> n \div g, den |-> d \div g]

Add(a, b) == Fraction(a.num * b.den + b.num * a.den, a.den * b.den)

\* TextEditor.tsx:1041, 1056  reduce((sum, layer) => sum + layer.y, 0)
RECURSIVE SumOf(_)
SumOf(vals) ==
    IF vals = <<>> THEN Num(0) ELSE Add(SumOf(SubSeq(vals, 1, Len(vals) - 1)), vals[Len(vals)])

\* Mutant of Mean: the first value stands for the mean.
Mean_First(vals) == vals[1]

\* TextEditor.tsx:1041, 1056  the sum divided by selectedLayers.length
Mean(vals) ==
    LET sum == SumOf(vals)
    IN  Fraction(sum.num, sum.den * Len(vals))

\* Mutant of AlignLayers: every layer is moved, selected or not.
AlignLayers_All(layers, sel, axis) ==
    LET selectedLayers == SelectedLayers(layers, sel)
        center == Mean([i \in 1..Len(selectedLayers) |-> selectedLayers[i][axis]])
    IN  [i \in 1..Len(layers) |-> [layers[i] EXCEPT ![axis] = center]]

\* TextEditor.tsx:1040-1047 (axis "y"), 1055-1062 (axis "x")
AlignLayers(layers, sel, axis) ==
    LET selectedLayers == SelectedLayers(layers, sel)
        center == Mean([i \in 1..Len(selectedLayers) |-> selectedLayers[i][axis]])
    IN  [i \in 1..Len(layers) |->
            IF layers[i].id \in sel
            THEN [layers[i] EXCEPT ![axis] = center]
            ELSE layers[i]]

\* TextEditor.tsx:749-756
ToggleLockLayers(layers, sel) ==
    LET selectedLayers == SelectedLayers(layers, sel)
        allLocked == \A i \in 1..Len(selectedLayers) : selectedLayers[i].locked
        newLockState == ~allLocked
    IN  [i \in 1..Len(layers) |->
            IF layers[i].id \in sel
            THEN [layers[i] EXCEPT !.locked = newLockState]
            ELSE layers[i]]

\* part_001:648-652
DragLayer(layers, id, p) ==
    [i \in 1..Len(layers) |->
        IF layers[i].id = id
        THEN [layers[i] EXCEPT !.x = p[1], !.y = p[2]]
        ELSE layers[i]]

\* part_001:667-678
TransformLayer(layers, id, t) ==
    [i \in 1..Len(layers) |->
        IF layers[i].id = id
        THEN [layers[i] EXCEPT !.x = t.x, !.y = t.y, !.rotation = t.rotation,
                               !.scaleX = t.scaleX, !.scaleY = t.scaleY]
        ELSE layers[i]]

\* Mutant of ToggleSelection: the id is added, never removed.
ToggleSelection_AddOnly(prev, id) == prev \cup {id}

\* part_001:612-620  the updater of a click with the multi-select modifier
ToggleSelection(prev, id) == IF id \in prev THEN prev \ {id} ELSE prev \cup {id}

\* part_001:622, TextEditor.tsx:339
SelectOnly(id) == {id}

\* TextEditor.tsx:414-418, 466-473  the record a save writes
SaveData(layers, h, step, img) ==
    [textLayers |-> layers, history |-> h, currentStep |-> step,
     imageUrl |-> img.imageUrl, imageWidth |-> img.imageWidth,
     imageHeight |-> img.imageHeight, version |-> "1.0"]

\* JSON.stringify of an object (TextEditor.tsx:419): its members, key and
\* value, in the order of the keys
StringifyObject(obj, keys) == [i \in 1..Len(keys) |-> <<keys[i], obj[keys[i]]>>]

\* The keys of a layer (TextEditor.tsx:603-626) and of the record
\* (TextEditor.tsx:414-418) in the order the object literals give them
LayerKeys == <<"id", "x", "y", "text", "fontWeight", "fill", "textShadow",
               "rotation", "scaleX", "scaleY", "locked", "isWarped", "warpPath",
               "warpPathType", "warpRadius", "warpAngle",
               "spacingHintColor", "spacingHintOpacity">>
\* TextEditor.tsx:105-110  the keys of a text shadow
ShadowKeys == <<"color", "blur">>
RecordKeys == <<"textLayers", "history", "currentStep", "imageUrl", "imageWidth",
                "imageHeight", "version">>

StringifyLayers(layers) ==
    [i \in 1..Len(layers) |->
        StringifyObject([layers[i] EXCEPT
                             !.textShadow = StringifyObject(layers[i].textShadow, ShadowKeys)],
                        LayerKeys)]

\* TextEditor.tsx:419  JSON.stringify(saveData)
Stringify(saveData) ==
    StringifyObject([saveData EXCEPT
                         !.textLayers = StringifyLayers(saveData.textLayers),
                         !.history = [k \in 1..Len(saveData.history) |->
                                         StringifyLayers(saveData.history[k])]],
                    RecordKeys)

\* JSON.parse of an object: a key maps to the value of its last member
ParseObject(members) ==
    [key \in {members[i][1] : i \in 1..Len(members)} |->
        members[CHOOSE i \in 1..Len(members) :
                    /\ members[i][1] = key
                    /\ \A j \in (i + 1)..Len(members) : members[j][1] # key][2]]

ParseLayers(texts) ==
    [i \in 1..Len(texts) |->
        LET layer == ParseObject(texts[i])
        IN  [layer EXCEPT !.textShadow = ParseObject(layer.textShadow)]]

\* TextEditor.tsx:431  JSON.parse(savedData)
Parse(savedData) ==
    LET top == ParseObject(savedData)
    IN  [top EXCEPT !.textLayers = ParseLayers(top.textLayers),
                    !.history = [k \in 1..Len(top.history) |-> ParseLayers(top.history[k])]]

\* TextEditor.tsx:386, 396  history[newStep] of an index without an entry is
\* undefined; the collection that is then installed is no array of layers,
\* and the render that follows throws at its first use.  The model keeps it
\* as one entry that is no layer.
Undefined == <<[undefined |-> TRUE]>>

\* Mutant of LoadMatches: only the url is compared.
LoadMatches_UrlOnly(parsed, img) == parsed.imageUrl = img.imageUrl

\* TextEditor.tsx:434-436
LoadMatches(parsed, img) ==
    /\ parsed.imageUrl = img.imageUrl
    /\ parsed.imageWidth = img.imageWidth
    /\ parsed.imageHeight = img.imageHeight

\* Mutant of LoadedStep: the cursor is not taken from the record.
LoadedStep_Zero(parsed) == 0

\* TextEditor.tsx:440  parsed.currentStep || 0
LoadedStep(parsed) == IF parsed.currentStep = 0 THEN 0 ELSE parsed.currentStep

\* TextEditor.tsx:427-455  loadFromLocalStorage in an editor on image img
\* that has its initial state: what it installs and what it leaves stored
LoadFromLocalStorage(store, img) ==
    LET loaded == store # <<>> /\ LoadMatches(Parse(store[1]), img)
        parsed == Parse(store[1])
    IN  [loaded |-> loaded,
         textLayers |-> IF loaded THEN parsed.textLayers ELSE <<>>,
         history |-> IF loaded THEN parsed.history ELSE << <<>> >>,
         currentStep |-> IF loaded THEN LoadedStep(parsed) ELSE 0,
         storage |-> IF loaded THEN store ELSE <<>>]

\* Mutant of UnmountCleanup: the timer of the editor that unmounts stays.
UnmountCleanup_Keeps(pending) == pending

\* TextEditor.tsx:580-587  the cleanup of an editor that unmounts clears the
\* timer its ref holds
UnmountCleanup(pending) == <<>>

\* TextEditor.tsx:457-476, 574-578  the autosave effect after a commit that
\* changed textLayers, history, currentStep or the replay flag: it restarts
\* the timer with the committed state unless the replay flag is set
AutosaveEffect(flag, layers, h, step, img, pending) ==
    IF ~flag THEN <<SaveData(layers, h, step, img)>> ELSE pending

-----------------------------------------------------------------------------
(* Observers: they record what happened and never influence the program *)

NoRun == [bases |-> <<>>, undos |-> 0]
NoGesture == [phase |-> "none", before |-> <<>>, after |-> <<>>]

\* A mount that found a stored record and discarded it is remembered as such
LoadGesture(store, load) ==
    IF store # <<>> /\ ~load.loaded
    THEN [phase |-> "discarded", before |-> <<>>, after |-> <<>>]
    ELSE NoGesture

\* An edit that took effect extends the current run of edits, or starts a
\* new run when the run already holds undos; bases[k] is the collection
\* before the k-th edit of the run.
RunAfterEdit(r, before) ==
    IF r.undos = 0
    THEN [bases |-> Append(r.bases, before), undos |-> 0]
    ELSE [bases |-> <<before>>, undos |-> 0]

\* An undo request after a run of edits counts against the run until there
\* are as many undos as edits.
RunAfterUndo(r) ==
    IF r.undos < Len(r.bases)
    THEN [bases |-> r.bases, undos |-> r.undos + 1]
    ELSE NoRun

-----------------------------------------------------------------------------
(* State after construction: the page has mounted the editor on the first  *)
(* image, nothing is stored, and the mount's autosave effect has scheduled *)
(* a save of the empty design (TextEditor.tsx:252-266, 562-578).           *)

\* No font has been uploaded
NoFonts == documentFonts = <<>> /\ customFonts = <<>> /\ fontLoads = <<>>

\* ImageUploader.tsx:27-30  no file has been handed to the image loader
NoUploads == uploads = <<>> /\ error = <<>>

FirstImage == [imageUrl |-> "a", imageWidth |-> 4, imageHeight |-> 3]

Init ==
    /\ textLayers = <<>>
    /\ selectedIds = {}
    /\ textStyle = defaultTextStyle
    /\ history = << <<>> >>
    /\ currentStep = 0
    /\ isUndoRedoAction = FALSE
    /\ image = FirstImage
    /\ autosaveTimeout = <<SaveData(<<>>, << <<>> >>, 0, FirstImage)>>
    /\ storage = <<>>
    /\ now = 0
    /\ lastOp = "mount"
    /\ took = TRUE
    /\ run = NoRun
    /\ gesture = NoGesture
    /\ nEvents = 0
    /\ NoFonts
    /\ NoUploads

-----------------------------------------------------------------------------
(* addToHistory, as called by every editing handler of TextEditor.tsx *)

\* TextEditor.tsx:360-379
addToHistory(newLayers) ==
    IF isUndoRedoAction
    THEN /\ isUndoRedoAction' = FALSE
         /\ UNCHANGED <<history, currentStep>>
    ELSE /\ history' = AddToHistoryHistory(history, currentStep, newLayers)
         /\ currentStep' = AddToHistoryStep(currentStep)
         /\ UNCHANGED isUndoRedoAction

\* What follows every editing handler: the new collection is committed and
\* handed to addToHistory, the selection is reconciled and the autosave
\* effect runs.
CommitEdit(name, newLayers, newSel) ==
    /\ textLayers' = newLayers
    /\ addToHistory(newLayers)
    /\ selectedIds' = ReconcileSelection(newSel, newLayers)
    /\ autosaveTimeout' = AutosaveEffect(isUndoRedoAction', newLayers, history',
                                         currentStep', image, autosaveTimeout)
    /\ lastOp' = name
    /\ took' = TRUE
    /\ run' = RunAfterEdit(run, textLayers)
    /\ gesture' = NoGesture
    /\ nEvents' = nEvents + 1
    /\ UNCHANGED <<fontVars, loaderVars>>
    /\ UNCHANGED <<storage, image>>

\* An event whose handler returns at its guard: no state update, no render.
NoEffect(name) ==
    /\ lastOp' = name
    /\ took' = FALSE
    /\ gesture' = NoGesture
    /\ nEvents' = nEvents + 1
    /\ UNCHANGED <<fontVars, loaderVars>>
    /\ UNCHANGED <<textLayers, selectedIds, history, currentStep, isUndoRedoAction,
                   autosaveTimeout, storage, image, now, run, textStyle>>

\* TextEditor.tsx:603-632  t is the reading of Date.now() at the event
addText(t) ==
    /\ now' = t
    /\ LET newText == NewText(t, textStyle)
       IN  CommitEdit("addText", Append(textLayers, newText), SelectOnly(newText.id))
    /\ UNCHANGED textStyle

\* TextEditor.tsx:676-683
deleteText ==
    IF hasSelection(selectedIds)
    THEN /\ CommitEdit("deleteText", DeleteLayers(textLayers, selectedIds), {})
         /\ UNCHANGED <<now, textStyle>>
    ELSE NoEffect("deleteText")

\* Mutant of UpdateLayers: every layer takes the value.
UpdateLayers_All(layers, sel, property, value) ==
    [i \in 1..Len(layers) |-> [layers[i] EXCEPT ![property] = value]]

\* TextEditor.tsx:638-642
UpdateLayers(layers, sel, property, value) ==
    [i \in 1..Len(layers) |->
        IF layers[i].id \in sel
        THEN [layers[i] EXCEPT ![property] = value]
        ELSE layers[i]]

\* TextEditor.tsx:634-654, 1364  the style inputs are part of the side panel;
\* the selected layers take the value and are recorded; the style template
\* takes it in either case
updateTextStyle(property, value) ==
    /\ selectedText(selectedIds, textLayers)
    /\ textStyle' = [textStyle EXCEPT ![property] = value]
    /\ IF hasSelection(selectedIds)
       THEN /\ CommitEdit("updateTextStyle",
                          UpdateLayers(textLayers, selectedIds, property, value),
                          selectedIds)
            /\ UNCHANGED now
       ELSE /\ lastOp' = "updateTextStyle"
            /\ took' = FALSE
            /\ gesture' = NoGesture
            /\ nEvents' = nEvents + 1
            /\ UNCHANGED <<fontVars, loaderVars>>
            /\ UNCHANGED <<textLayers, selectedIds, history, currentStep,
                           isUndoRedoAction, autosaveTimeout, storage, image, now, run>>

\* The reorder handlers share their guard: exactly one id is selected.  The
\* id is that of a layer (the buttons are part of the panel, which is
\* rendered for a selected layer only), and currentIndex is its 0-based
\* index.
SingleSelection == hasSelection(selectedIds) /\ Cardinality(selectedIds) = 1
currentIndex == FindIndex(textLayers, TheSelectedId(selectedIds)) - 1

\* A reorder that takes effect: the collection is replaced and recorded, the
\* selection stays.
CommitReorder(name, newLayers) ==
    /\ CommitEdit(name, newLayers, selectedIds)
    /\ UNCHANGED <<now, textStyle>>

\* TextEditor.tsx:686-699
moveLayerUp ==
    IF SingleSelection /\ currentIndex > 0
    THEN CommitReorder("moveLayerUp",
                       SwapLayers(textLayers, currentIndex + 1, currentIndex))
    ELSE NoEffect("moveLayerUp")

\* TextEditor.tsx:701-714
moveLayerDown ==
    IF SingleSelection /\ currentIndex >= 0 /\ currentIndex < Len(textLayers) - 1
    THEN CommitReorder("moveLayerDown",
                       SwapLayers(textLayers, currentIndex + 1, currentIndex + 2))
    ELSE NoEffect("moveLayerDown")

\* Mutant of bringToFront: the handler is called on the last index as well.
bringToFront_Unguarded ==
    IF SingleSelection /\ currentIndex >= 0
    THEN CommitReorder("bringToFront",
                       BringToFrontLayers(textLayers, TheSelectedId(selectedIds)))
    ELSE NoEffect("bringToFront")

\* TextEditor.tsx:716-727, 2343  the button is disabled on the last index
bringToFront ==
    IF SingleSelection /\ currentIndex >= 0 /\ currentIndex # Len(textLayers) - 1
    THEN CommitReorder("bringToFront",
                       BringToFrontLayers(textLayers, TheSelectedId(selectedIds)))
    ELSE NoEffect("bringToFront")

\* TextEditor.tsx:729-740, 2353  the button is disabled on index 0
sendToBack ==
    IF SingleSelection /\ currentIndex > 0
    THEN CommitReorder("sendToBack",
                       SendToBackLayers(textLayers, TheSelectedId(selectedIds)))
    ELSE NoEffect("sendToBack")

\* TextEditor.tsx:1038-1051  "Align V": the selected layers take the mean y
alignLayersVertically ==
    IF Cardinality(selectedIds) >= 2
    THEN /\ CommitEdit("alignLayersVertically",
                       AlignLayers(textLayers, selectedIds, "y"), selectedIds)
         /\ UNCHANGED <<now, textStyle>>
    ELSE NoEffect("alignLayersVertically")

\* TextEditor.tsx:1053-1066  "Align H": the selected layers take the mean x
alignLayersHorizontally ==
    IF Cardinality(selectedIds) >= 2
    THEN /\ CommitEdit("alignLayersHorizontally",
                       AlignLayers(textLayers, selectedIds, "x"), selectedIds)
         /\ UNCHANGED <<now, textStyle>>
    ELSE NoEffect("alignLayersHorizontally")

\* TextEditor.tsx:764-782, 2390-2391  t is the reading of Date.now()
duplicateLayer(t) ==
    IF hasSelection(selectedIds) /\ Cardinality(selectedIds) = 1
       /\ FindIndex(textLayers, TheSelectedId(selectedIds)) # 0
    THEN LET selectedLayer == textLayers[FindIndex(textLayers, TheSelectedId(selectedIds))]
             duplicatedLayer == DuplicatedLayer(selectedLayer, t)
         IN  /\ now' = t
             /\ CommitEdit("duplicateLayer", Append(textLayers, duplicatedLayer),
                           SelectOnly(duplicatedLayer.id))
             /\ UNCHANGED textStyle
    ELSE NoEffect("duplicateLayer")

\* TextEditor.tsx:743-761
toggleLock ==
    IF hasSelection(selectedIds)
       /\ Len(SelectedLayers(textLayers, selectedIds)) > 0
    THEN /\ CommitEdit("toggleLock", ToggleLockLayers(textLayers, selectedIds), selectedIds)
         /\ UNCHANGED <<now, textStyle>>
    ELSE NoEffect("toggleLock")

-----------------------------------------------------------------------------
(* Canvas events (src/unnamed/part_001) and the layer list *)

\* Selection changes alone: the render that follows runs the reconciliation
\* effect; the autosave effect does not depend on the selection.
CommitSelection(name, newSel) ==
    /\ selectedIds' = ReconcileSelection(newSel, textLayers)
    /\ lastOp' = name
    /\ took' = TRUE
    /\ gesture' = NoGesture
    /\ UNCHANGED <<textLayers, history, currentStep, isUndoRedoAction,
                   autosaveTimeout, storage, image, now, run,
                   nEvents, textStyle, fontVars, loaderVars>>

\* part_001:608-643  onClick / onTap of the text node of layer i
canvasClick(i, multi) ==
    IF ~textLayers[i].locked
    THEN CommitSelection("canvasClick",
                         IF multi THEN ToggleSelection(selectedIds, textLayers[i].id)
                                  ELSE SelectOnly(textLayers[i].id))
    ELSE /\ lastOp' = "canvasClick"
         /\ took' = FALSE
         /\ gesture' = NoGesture
         /\ UNCHANGED <<textLayers, selectedIds, history, currentStep,
                        isUndoRedoAction, autosaveTimeout, storage, image, now,
                        run, nEvents, textStyle, fontVars, loaderVars>>

\* TextEditor.tsx:331-341, 2413  a click on an entry of the layer list
selectLayer(id) ==
    /\ selectedText(selectedIds, textLayers)
    /\ CommitSelection("selectLayer", SelectOnly(id))

\* A gesture completion: the canvas replaces the collection through
\* setTextLayers alone; the editor's effects run on the new collection.
CommitGesture(name, newLayers) ==
    /\ textLayers' = newLayers
    /\ selectedIds' = ReconcileSelection(selectedIds, newLayers)
    /\ autosaveTimeout' = AutosaveEffect(isUndoRedoAction, newLayers, history,
                                         currentStep, image, autosaveTimeout)
    /\ lastOp' = name
    /\ took' = TRUE
    /\ run' = NoRun
    /\ gesture' = [phase |-> "done", before |-> textLayers, after |-> newLayers]
    /\ nEvents' = nEvents + 1
    /\ UNCHANGED <<fontVars, loaderVars>>
    /\ UNCHANGED <<history, currentStep, isUndoRedoAction, storage, image, now,
                   textStyle>>

\* part_001:607, 644-657  the node is draggable while its layer is unlocked
onDragEnd(i, p) ==
    /\ ~textLayers[i].locked
    /\ CommitGesture("onDragEnd", DragLayer(textLayers, textLayers[i].id, p))

\* part_001:106-146, 658-683  the transformer holds the selected nodes while
\* at least one selected layer is unlocked
onTransformEnd(i, t) ==
    /\ textLayers[i].id \in selectedIds
    /\ \E j \in 1..Len(textLayers) :
          textLayers[j].id \in selectedIds /\ ~textLayers[j].locked
    /\ CommitGesture("onTransformEnd", TransformLayer(textLayers, textLayers[i].id, t))

-----------------------------------------------------------------------------
(* Undo / redo (TextEditor.tsx:381-399, 538-559) *)

\* TextEditor.tsx:384
UndoStep(step) == step - 1
\* TextEditor.tsx:394
RedoStep(step) == step + 1
\* Mutant of HistoryAt: the snapshot is read at the cursor as it was before
\* the replay moved it.
HistoryAt_Stale(h, step) == h[currentStep + 1]

\* TextEditor.tsx:386, 396  history[newStep]
HistoryAt(h, step) == IF step + 1 \in DOMAIN h THEN h[step + 1] ELSE Undefined

\* Mutant of CommitReplay: the replayed snapshot is pushed as a new entry.
CommitReplay_Recorded(name, newStep) ==
    /\ isUndoRedoAction' = TRUE
    /\ currentStep' = newStep
    /\ textLayers' = history[newStep + 1]
    /\ history' = Append(history, textLayers')
    /\ selectedIds' = {}
    /\ UNCHANGED <<autosaveTimeout, storage, image, now, textStyle>>
    /\ lastOp' = name
    /\ took' = TRUE
    /\ nEvents' = nEvents + 1
    /\ UNCHANGED <<fontVars, loaderVars>>

\* The commit of a replay: the autosave effect runs with the replay flag set
\* and leaves the pending timer as it is.
CommitReplay(name, newStep) ==
    /\ isUndoRedoAction' = TRUE
    /\ currentStep' = newStep
    /\ textLayers' = HistoryAt(history, newStep)
    /\ selectedIds' = ReconcileSelection({}, textLayers')
    /\ autosaveTimeout' = AutosaveEffect(TRUE, textLayers', history, newStep,
                                         image, autosaveTimeout)
    /\ lastOp' = name
    /\ took' = TRUE
    /\ nEvents' = nEvents + 1
    /\ UNCHANGED <<fontVars, loaderVars>>
    /\ UNCHANGED <<history, storage, image, now, textStyle>>

\* Mutant of RefuseReplay: the selection is cleared before the guard.
RefuseReplay_ClearsSelection(name) ==
    /\ selectedIds' = {}
    /\ lastOp' = name
    /\ took' = FALSE
    /\ nEvents' = nEvents + 1
    /\ UNCHANGED <<fontVars, loaderVars>>
    /\ UNCHANGED <<textLayers, history, currentStep, isUndoRedoAction,
                   autosaveTimeout, storage, image, now, textStyle>>

\* A replay request refused at the guard.
RefuseReplay(name) ==
    /\ lastOp' = name
    /\ took' = FALSE
    /\ nEvents' = nEvents + 1
    /\ UNCHANGED <<fontVars, loaderVars>>
    /\ UNCHANGED <<textLayers, selectedIds, history, currentStep, isUndoRedoAction,
                   autosaveTimeout, storage, image, now, textStyle>>

\* TextEditor.tsx:381-389
undo ==
    /\ IF canUndo(currentStep)
       THEN CommitReplay("undo", UndoStep(currentStep))
       ELSE RefuseReplay("undo")
    /\ run' = RunAfterUndo(run)
    /\ gesture' = IF gesture.phase = "done"
                  THEN [gesture EXCEPT !.phase = "undone"]
                  ELSE NoGesture

\* TextEditor.tsx:391-399
redo ==
    /\ IF canRedo(currentStep, history)
       THEN CommitReplay("redo", RedoStep(currentStep))
       ELSE RefuseReplay("redo")
    /\ run' = NoRun
    /\ gesture' = IF gesture.phase = "undone"
                  THEN [gesture EXCEPT !.phase = "redone"]
                  ELSE NoGesture

-----------------------------------------------------------------------------
(* Persistence and session events *)

EmptyHistory == << <<>> >>

\* TextEditor.tsx:478-489  the Save button
manualSave ==
    /\ storage' = <<Stringify(SaveData(textLayers, history, currentStep, image))>>
    /\ lastOp' = "manualSave"
    /\ took' = TRUE
    /\ gesture' = NoGesture
    /\ nEvents' = nEvents + 1
    /\ UNCHANGED <<fontVars, loaderVars>>
    /\ UNCHANGED <<textLayers, selectedIds, history, currentStep, isUndoRedoAction,
                   autosaveTimeout, image, now, run, textStyle>>

\* TextEditor.tsx:464-475  the debounce timer fires and writes the state it
\* was scheduled with
autosaveFire ==
    /\ autosaveTimeout # <<>>
    /\ \E i \in 1..Len(autosaveTimeout) :
          /\ storage' = <<Stringify(autosaveTimeout[i])>>
          /\ autosaveTimeout' = SubSeq(autosaveTimeout, 1, i - 1)
                                    \o SubSeq(autosaveTimeout, i + 1, Len(autosaveTimeout))
    /\ lastOp' = "autosaveFire"
    /\ took' = TRUE
    /\ nEvents' = nEvents + 1
    /\ UNCHANGED <<fontVars, loaderVars>>
    /\ UNCHANGED <<textLayers, selectedIds, history, currentStep, isUndoRedoAction,
                   image, now, run, gesture, textStyle>>

\* TextEditor.tsx:501-528  Reset Design, then the autosave effect of the
\* render that follows
resetDesign ==
    /\ storage' = <<>>
    /\ textLayers' = <<>>
    /\ selectedIds' = ReconcileSelection({}, <<>>)
    /\ textStyle' = defaultTextStyle
    /\ history' = EmptyHistory
    /\ currentStep' = 0
    /\ isUndoRedoAction' = FALSE
    /\ autosaveTimeout' = AutosaveEffect(FALSE, <<>>, EmptyHistory, 0, image, <<>>)
    /\ lastOp' = "resetDesign"
    /\ took' = TRUE
    /\ run' = NoRun
    /\ gesture' = NoGesture
    /\ nEvents' = nEvents + 1
    /\ UNCHANGED <<fontVars, loaderVars>>
    /\ UNCHANGED <<image, now>>

\* part_000:19-34, TextEditor.tsx:252-267, 427-455, 562-587  the user goes
\* back to the upload page (the editor unmounts and its cleanup clears the
\* timer) and uploads an image: a new editor mounts on it with its initial
\* state, loads the stored record if its image identity matches, and the
\* autosave effect schedules a save of the state it ends up with.  The
\* document keeps its font faces, and the font loads of the editor that is
\* gone stay pending.
mountEditor(img) ==
    LET load == LoadFromLocalStorage(storage, img)
    IN  /\ image' = img
        /\ textLayers' = load.textLayers
        /\ history' = load.history
        /\ currentStep' = load.currentStep
        /\ storage' = load.storage
        /\ isUndoRedoAction' = FALSE
        /\ textStyle' = defaultTextStyle
        /\ selectedIds' = ReconcileSelection({}, textLayers')
        /\ autosaveTimeout' = UnmountCleanup(autosaveTimeout)
                                 \o AutosaveEffect(FALSE, textLayers', history',
                                                   currentStep', img, <<>>)
        /\ lastOp' = "mountEditor"
        /\ took' = load.loaded
        /\ run' = NoRun
        /\ gesture' = LoadGesture(storage, load)
        /\ nEvents' = nEvents + 1
        /\ customFonts' = <<>>
        /\ fontLoads' = [i \in 1..Len(fontLoads) |-> [fontLoads[i] EXCEPT !.mounted = FALSE]]
        /\ UNCHANGED documentFonts
        /\ UNCHANGED loaderVars
        /\ UNCHANGED now

-----------------------------------------------------------------------------
(* The selection reconciliation effect on its own *)

\* TextEditor.tsx:344-357  one run of the effect: the selection is replaced
\* only when the filtered set is smaller
reconcileEffect ==
    LET newSelectedIds == ReconcileSelection(selectedIds, textLayers)
    IN  /\ selectedIds' = IF Cardinality(newSelectedIds) # Cardinality(selectedIds)
                          THEN newSelectedIds
                          ELSE selectedIds
        /\ lastOp' = "reconcile"
        /\ took' = (Cardinality(newSelectedIds) # Cardinality(selectedIds))
        /\ nEvents' = nEvents + 1
        /\ UNCHANGED <<fontVars, loaderVars>>
        /\ UNCHANGED <<textLayers, textStyle, history, currentStep, isUndoRedoAction,
                       autosaveTimeout, storage, image, now, run, gesture>>

-----------------------------------------------------------------------------
(* Distribution of the selected layers (TextEditor.tsx:1015-1036, 1068-1090) *)

\* a < b, a - b and a * n for coordinates
Less(a, b) == a.num * b.den < b.num * a.den
Sub(a, b) == Fraction(a.num * b.den - b.num * a.den, a.den * b.den)
Times(a, n) == Fraction(a.num * n, a.den)
\* a / n for a whole number n > 0
Over(a, n) == Fraction(a.num, a.den * n)

\* Array.prototype.sort with the comparator (a, b) => a[axis] - b[axis]: the
\* sort is stable, layers of equal coordinate keep their order
RECURSIVE InsertSorted(_, _, _)
InsertSorted(sorted, layer, axis) ==
    IF sorted = <<>> THEN <<layer>>
    ELSE IF Less(layer[axis], sorted[Len(sorted)][axis])
         THEN Append(InsertSorted(SubSeq(sorted, 1, Len(sorted) - 1), layer, axis),
                     sorted[Len(sorted)])
         ELSE Append(sorted, layer)
RECURSIVE SortLayers(_, _)
SortLayers(layers, axis) ==
    IF layers = <<>> THEN <<>>
    ELSE InsertSorted(SortLayers(SubSeq(layers, 1, Len(layers) - 1), axis),
                      layers[Len(layers)], axis)

\* TextEditor.tsx:1017-1031 (axis "x"), 1070-1084 (axis "y"): a selected
\* layer takes the place of the first sorted layer that carries its id
DistributeLayers(layers, sel, axis) ==
    LET selectedLayers == SelectedLayers(layers, sel)
        sortedLayers == SortLayers(selectedLayers, axis)
        firstLayer == sortedLayers[1]
        lastLayer == sortedLayers[Len(sortedLayers)]
        totalDistance == Sub(lastLayer[axis], firstLayer[axis])
        spacing == Over(totalDistance, Len(sortedLayers) - 1)
    IN  [i \in 1..Len(layers) |->
            IF layers[i].id \in sel
            THEN LET layerIndex == FindIndex(sortedLayers, layers[i].id) - 1
                 IN  [layers[i] EXCEPT ![axis] = Add(firstLayer[axis], Times(spacing, layerIndex))]
            ELSE layers[i]]

\* TextEditor.tsx:1015-1036, 2287  "Distribute H": along x
distributeLayersEvenly ==
    IF Cardinality(selectedIds) >= 3
    THEN /\ CommitEdit("distributeLayersEvenly",
                       DistributeLayers(textLayers, selectedIds, "x"), selectedIds)
         /\ UNCHANGED <<now, textStyle>>
    ELSE NoEffect("distributeLayersEvenly")

\* TextEditor.tsx:1068-1090, 2295  "Distribute V": along y
distributeLayersVertically ==
    IF Cardinality(selectedIds) >= 3
    THEN /\ CommitEdit("distributeLayersVertically",
                       DistributeLayers(textLayers, selectedIds, "y"), selectedIds)
         /\ UNCHANGED <<now, textStyle>>
    ELSE NoEffect("distributeLayersVertically")

-----------------------------------------------------------------------------
(* Custom fonts (TextEditor.tsx:1092-1153, part_001:171-191) *)

\* part_001:174  Array.from(document.fonts).some(f => f.family === font.name)
IsLoaded(fonts, name) == \E i \in 1..Len(fonts) : fonts[i] = name

\* A sequence without its i-th element
RemoveAt(seq, i) == SubSeq(seq, 1, i - 1) \o SubSeq(seq, i + 1, Len(seq))

\* part_001:171-191  the canvas effect that runs when customFonts has
\* changed: it starts a load for every entry whose family has no face in the
\* document
EnsureLoads(custom, fonts) ==
    LET missing == SelectSeq(custom, LAMBDA name : ~IsLoaded(fonts, name))
    IN  [i \in 1..Len(missing) |-> [family |-> missing[i], by |-> "ensure", mounted |-> TRUE]]

\* What the font events share
FontEvent(name) ==
    /\ lastOp' = name
    /\ took' = TRUE
    /\ gesture' = NoGesture
    /\ nEvents' = nEvents + 1
    /\ UNCHANGED <<textLayers, selectedIds, textStyle, history, currentStep,
                   isUndoRedoAction, autosaveTimeout, storage, image, now, run>>
    /\ UNCHANGED loaderVars

\* TextEditor.tsx:1092-1143, 1510-1524  a font file is chosen: a file of a
\* wrong type or size is rejected; otherwise the file is read, a FontFace of
\* the file's name is created and its load is started
uploadCustomFont(fontName, isValid) ==
    IF isValid
    THEN /\ fontLoads' = Append(fontLoads, [family |-> fontName, by |-> "upload", mounted |-> TRUE])
         /\ UNCHANGED <<documentFonts, customFonts>>
         /\ FontEvent("uploadCustomFont")
    ELSE NoEffect("uploadCustomFont")

\* TextEditor.tsx:1120-1128, part_001:178-180  a load resolves: the face is
\* added to the document; the load of an upload also appends the font to
\* customFonts of the editor that started it, if that editor is still
\* mounted, and the canvas effect runs on the new customFonts
fontLoadResolves(i) ==
    LET load == fontLoads[i]
        uploaded == load.by = "upload" /\ load.mounted
    IN  /\ documentFonts' = Append(documentFonts, load.family)
        /\ customFonts' = IF uploaded THEN Append(customFonts, load.family) ELSE customFonts
        /\ fontLoads' = RemoveAt(fontLoads, i)
                           \o (IF uploaded THEN EnsureLoads(customFonts', documentFonts')
                                           ELSE <<>>)
        /\ FontEvent("fontLoadResolves")

\* TextEditor.tsx:1129-1131, part_001:181-183  a load rejects
fontLoadRejects(i) ==
    /\ fontLoads' = RemoveAt(fontLoads, i)
    /\ UNCHANGED <<documentFonts, customFonts>>
    /\ FontEvent("fontLoadRejects")

\* TextEditor.tsx:1145-1153, 1543  the remove button of an uploaded font:
\* every entry of that name leaves customFonts, the first face of that
\* family leaves the document, and the canvas effect runs
removeCustomFont(fontName) ==
    /\ IsLoaded(customFonts, fontName)
    /\ customFonts' = SelectSeq(customFonts, LAMBDA name : name # fontName)
    /\ documentFonts' = IF IsLoaded(documentFonts, fontName)
                        THEN RemoveAt(documentFonts,
                                      CHOOSE i \in 1..Len(documentFonts) :
                                         /\ documentFonts[i] = fontName
                                         /\ \A j \in 1..(i - 1) : documentFonts[j] # fontName)
                        ELSE documentFonts
    /\ fontLoads' = fontLoads \o EnsureLoads(customFonts', documentFonts')
    /\ FontEvent("removeCustomFont")

-----------------------------------------------------------------------------
(* Position, shape and warp controls of the side panel *)

\* Values the position, rotation and scale inputs can report (property, value)
InputEdits == {<<"x", Num(70)>>, <<"y", Num(70)>>, <<"rotation", 45>>,
               <<"scaleX", 2>>, <<"scaleY", 2>>}

\* TextEditor.tsx:1931-1965, 1975-1991, 2000-2045  onChange of the X, Y,
\* rotation and scale inputs: every selected layer takes the value
geometryInput(property, value) ==
    /\ selectedText(selectedIds, textLayers)
    /\ IF hasSelection(selectedIds)
       THEN /\ CommitEdit("geometryInput",
                          UpdateLayers(textLayers, selectedIds, property, value),
                          selectedIds)
            /\ UNCHANGED <<now, textStyle>>
       ELSE NoEffect("geometryInput")

\* TextEditor.tsx:803-806, part_001:298-299  the number
\* base + radius * Math.cos(angle) or base + radius * Math.sin(angle) for an
\* angle of deg degrees: cos 0 = 1 and sin 0 = 0 are evaluated, every other
\* cosine or sine stays a term
Along(base, radius, fn, deg) ==
    IF deg = Num(0)
    THEN [base |-> Plus(base, IF fn = "cos" THEN radius ELSE 0),
          radius |-> 0, fn |-> "", deg |-> Num(0)]
    ELSE [base |-> base, radius |-> radius, fn |-> fn, deg |-> deg]

\* A number without a cosine or sine
Exact(base) == [base |-> base, radius |-> 0, fn |-> "", deg |-> Num(0)]

\* TextEditor.tsx:799-801, 848-853  startAngle and endAngle, in degrees
StartAngle(angle) == Sub(Num(0), Over(Num(angle), 2))
EndAngle(angle) == Over(Num(angle), 2)

\* TextEditor.tsx:803-809, 855-865  the path of the arc of the layer's
\* radius and angle around its position
ArcPath(layer) ==
    LET startX == Along(layer.x, layer.warpRadius, "cos", StartAngle(layer.warpAngle))
        startY == Along(layer.y, layer.warpRadius, "sin", StartAngle(layer.warpAngle))
        endX == Along(layer.x, layer.warpRadius, "cos", EndAngle(layer.warpAngle))
        endY == Along(layer.y, layer.warpRadius, "sin", EndAngle(layer.warpAngle))
        largeArcFlag == IF layer.warpAngle > 180 THEN 1 ELSE 0
    IN  <<"M", startX, startY, "A", layer.warpRadius, layer.warpRadius, 0,
          largeArcFlag, 1, endX, endY>>

\* TextEditor.tsx:796-810  the default arc around the layer's position
DefaultPath(layer) == ArcPath(layer)

\* TextEditor.tsx:789-812  the layer with its warp flag flipped; it gets the
\* default path when the warp is switched on and it has no path
ToggleWarpLayer(selectedLayer) ==
    LET isCurrentlyWarped == selectedLayer.isWarped
        newLayer == [selectedLayer EXCEPT !.isWarped = ~isCurrentlyWarped]
    IN  IF ~isCurrentlyWarped /\ selectedLayer.warpPath = <<>>
        THEN [newLayer EXCEPT !.warpPath = DefaultPath(selectedLayer)]
        ELSE newLayer

\* TextEditor.tsx:785-821, 2088  map(layer => layer.id === selectedId ? newLayer : layer)
toggleWarp ==
    IF SingleSelection /\ FindIndex(textLayers, TheSelectedId(selectedIds)) # 0
    THEN LET selectedId == TheSelectedId(selectedIds)
             newLayer == ToggleWarpLayer(textLayers[FindIndex(textLayers, selectedId)])
         IN  /\ CommitEdit("toggleWarp",
                           [i \in 1..Len(textLayers) |->
                               IF textLayers[i].id = selectedId THEN newLayer
                                                                ELSE textLayers[i]],
                           selectedIds)
             /\ UNCHANGED <<now, textStyle>>
    ELSE NoEffect("toggleWarp")

-----------------------------------------------------------------------------
(* The image loader of the upload page (ImageUploader.tsx:33-102) *)

\* ImageUploader.tsx:40  toLowerCase on the file extensions that occur
ToLowerCase(ext) == IF ext = "PNG" THEN "png" ELSE ext

\* ImageUploader.tsx:33-49  the message of the first check that fails, or
\* <<>> for null
validateFile(file) ==
    IF file.type # "image/png"
    THEN <<"Please upload a PNG file only">>
    ELSE IF ToLowerCase(file.ext) # "png"
    THEN <<"Please upload a file with .png extension">>
    ELSE IF file.size > maxSize * BytesPerMB
    THEN <<"File size must be less than 10MB">>
    ELSE <<>>

\* ImageUploader.tsx:56-62  what img.onload resolves the promise with
Dimensions(bitmap) ==
    [width |-> bitmap[1], height |-> bitmap[2],
     aspectRatio |-> Fraction(bitmap[1], bitmap[2])]

\* ImageUploader.tsx:98  readAsDataURL: the media type and the content
DataUrl(file) == <<"data", file.type, file.content>>

\* What the events of the upload page share
LoaderEvent(name) ==
    /\ lastOp' = name
    /\ took' = TRUE
    /\ nEvents' = nEvents + 1
    /\ UNCHANGED fontVars
    /\ UNCHANGED <<textLayers, selectedIds, textStyle, history, currentStep,
                   isUndoRedoAction, autosaveTimeout, storage, image, now, run,
                   gesture>>

\* ImageUploader.tsx:69-80, 51-55, 65  a file is dropped or chosen: the
\* message is cleared; a file that fails validation sets its message and the
\* call returns; otherwise an Image is created on an object URL of the file
\* and the call waits for the promise of its dimensions
handleFile(file) ==
    LET validationError == validateFile(file)
    IN  /\ error' = validationError
        /\ uploads' = Append(uploads,
                             [file |-> file,
                              pc |-> IF validationError # <<>> THEN "reported" ELSE "decoding",
                              dimensions |-> <<>>,
                              imageData |-> <<>>])
        /\ LoaderEvent("handleFile")

\* ImageUploader.tsx:56-63, 80-84, 98  the browser has decoded the file:
\* onload resolves the promise, the call resumes, keeps the dimensions and
\* starts a FileReader on the file
imgOnload(i) ==
    /\ uploads[i].pc = "decoding"
    /\ uploads[i].file.bitmap # <<>>
    /\ uploads' = [uploads EXCEPT ![i].pc = "reading",
                                  ![i].dimensions = <<Dimensions(uploads[i].file.bitmap)>>]
    /\ UNCHANGED error
    /\ LoaderEvent("imgOnload")

\* ImageUploader.tsx:52-66  the browser cannot decode the file: it fires the
\* error event of the Image, which has no listener; the promise has no
\* reject and stays pending, and the call never resumes
imgError(i) ==
    /\ uploads[i].pc = "decoding"
    /\ uploads[i].file.bitmap = <<>>
    /\ uploads' = [uploads EXCEPT ![i].pc = "decodeFailed"]
    /\ UNCHANGED error
    /\ LoaderEvent("imgError")

\* ImageUploader.tsx:85-97  the reader has read the file: the preview is
\* set and the upload callback receives the image data
readerOnload(i) ==
    /\ uploads[i].pc = "reading"
    /\ uploads[i].file.readable
    /\ uploads' = [uploads EXCEPT
                     ![i].pc = "delivered",
                     ![i].imageData = <<[file |-> uploads[i].file,
                                         width |-> uploads[i].dimensions[1].width,
                                         height |-> uploads[i].dimensions[1].height,
                                         aspectRatio |-> uploads[i].dimensions[1].aspectRatio,
                                         preview |-> DataUrl(uploads[i].file)]>>]
    /\ UNCHANGED error
    /\ LoaderEvent("readerOnload")

\* ImageUploader.tsx:84-98  the file can no longer be read: the reader fires
\* its error event, which has no listener
readerError(i) ==
    /\ uploads[i].pc = "reading"
    /\ ~uploads[i].file.readable
    /\ uploads' = [uploads EXCEPT ![i].pc = "readFailed"]
    /\ UNCHANGED error
    /\ LoaderEvent("readerError")

-----------------------------------------------------------------------------
(* Warp paths, property inputs and the warped text of the canvas *)

\* The kinds of path the panel offers (TextEditor.tsx:836, 2109-2158)
PathTypes == {"arc", "circle", "wave", "spiral", "zigzag", "heart", "star", "custom"}

\* Mutant of WarpPath: the custom curve has no path text.
WarpPath_CustomEmpty(pathType, layer) ==
    IF pathType = "custom" THEN <<>> ELSE ArcPath(layer)

\* TextEditor.tsx:855-964  the path text of each kind.  The arc and the
\* circle are kept whole; of the other kinds the model keeps the first
\* command and the name of the kind in place of the commands that follow.
WarpPath(pathType, layer) ==
    LET centerX == layer.x
        centerY == layer.y
        radius == layer.warpRadius
        startX == Along(centerX, radius, "cos", StartAngle(layer.warpAngle))
        startY == Along(centerY, radius, "sin", StartAngle(layer.warpAngle))
    IN  CASE pathType = "arc" -> ArcPath(layer)
          [] pathType = "circle" ->
                <<"M", Exact(Plus(centerX, -radius)), Exact(centerY), "A", radius, radius,
                  0, 1, 1, Exact(Plus(centerX, -radius)), Exact(centerY)>>
          [] pathType = "spiral" -> <<"M", Exact(centerX), Exact(centerY), pathType>>
          [] pathType = "heart" ->
                <<"M", Exact(centerX),
                  Exact(Sub(centerY, Times(Fraction(radius, 50), 20))), pathType>>
          [] pathType = "star" ->
                <<"M", Along(centerX, radius, "cos", Num(0)),
                  Along(centerY, radius, "sin", Num(0)), pathType>>
          [] OTHER -> <<"M", startX, startY, pathType>>

\* TextEditor.tsx:836-976, 2102-2158  a path button; the buttons are shown
\* while the selected layer is warped
setWarpPath(pathType) ==
    IF /\ SingleSelection
       /\ FindIndex(textLayers, TheSelectedId(selectedIds)) # 0
       /\ textLayers[FindIndex(textLayers, TheSelectedId(selectedIds))].isWarped
    THEN LET selectedId == TheSelectedId(selectedIds)
             selectedLayer == textLayers[FindIndex(textLayers, selectedId)]
             path == WarpPath(pathType, selectedLayer)
         IN  /\ CommitEdit("setWarpPath",
                           [i \in 1..Len(textLayers) |->
                               IF textLayers[i].id = selectedId
                               THEN [textLayers[i] EXCEPT !.warpPath = path,
                                                          !.warpPathType = pathType]
                               ELSE textLayers[i]],
                           selectedIds)
             /\ UNCHANGED <<now, textStyle>>
    ELSE NoEffect("setWarpPath")

\* Values the sliders of the warp section can report (property, value)
WarpEdits == {<<"warpRadius", 50>>, <<"warpAngle", 360>>, <<"warpAngle", 90>>}

\* TextEditor.tsx:823-834, 2164-2207  a slider of the warp section; the
\* sliders are shown while the first selected layer is warped
updateWarpProperty(property, value) ==
    IF /\ hasSelection(selectedIds)
       /\ \E i \in 1..Len(textLayers) :
             textLayers[i].id \in selectedIds /\ textLayers[i].isWarped
    THEN /\ CommitEdit("updateWarpProperty",
                       UpdateLayers(textLayers, selectedIds, property, value),
                       selectedIds)
         /\ UNCHANGED <<now, textStyle>>
    ELSE NoEffect("updateWarpProperty")

\* Values the inputs of the text shadow can report (property, value)
ShadowEdits == {<<"color", "#ffffff">>, <<"blur", 5>>}

\* TextEditor.tsx:664-668  { ...layer, textShadow: { ...layer.textShadow, [property]: value } }
UpdateShadow(layers, sel, property, value) ==
    [i \in 1..Len(layers) |->
        IF layers[i].id \in sel
        THEN [layers[i] EXCEPT !.textShadow[property] = value]
        ELSE layers[i]]

\* TextEditor.tsx:656-674, 1808-1858  an input of the text shadow: the style
\* template takes the value, and the selected layers take it and are
\* recorded
updateTextShadow(property, value) ==
    /\ selectedText(selectedIds, textLayers)
    /\ textStyle' = [textStyle EXCEPT !.textShadow[property] = value]
    /\ IF hasSelection(selectedIds)
       THEN /\ CommitEdit("updateTextShadow",
                          UpdateShadow(textLayers, selectedIds, property, value),
                          selectedIds)
            /\ UNCHANGED now
       ELSE /\ lastOp' = "updateTextShadow"
            /\ took' = FALSE
            /\ gesture' = NoGesture
            /\ nEvents' = nEvents + 1
            /\ UNCHANGED <<fontVars, loaderVars>>
            /\ UNCHANGED <<textLayers, selectedIds, history, currentStep,
                           isUndoRedoAction, autosaveTimeout, storage, image, now, run>>

\* An input of the panel that hands one value to every selected layer
PanelInput(name, property, value) ==
    /\ selectedText(selectedIds, textLayers)
    /\ IF hasSelection(selectedIds)
       THEN /\ CommitEdit(name, UpdateLayers(textLayers, selectedIds, property, value),
                          selectedIds)
            /\ UNCHANGED <<now, textStyle>>
       ELSE NoEffect(name)

\* Colours and opacities the spacing-hint inputs can report
HintColors == {"#00ff00"}
HintOpacities == {[num |-> 1, den |-> 10], [num |-> 1, den |-> 1]}

\* TextEditor.tsx:991-1001, 2240
updateSpacingHintColor(color) ==
    PanelInput("updateSpacingHintColor", "spacingHintColor", color)

\* TextEditor.tsx:1003-1013, 2254
updateSpacingHintOpacity(opacity) ==
    PanelInput("updateSpacingHintOpacity", "spacingHintOpacity", opacity)

\* Texts the textarea can report
TextEdits == {"abc", "Hi", "x", ""}

\* TextEditor.tsx:1366-1385  onChange of the text content
updateTextContent(value) == PanelInput("updateTextContent", "text", value)

\* part_001:286  text.split(''), for the texts that occur
Chars(text) ==
    CASE text = "abc" -> <<"a", "b", "c">>
      [] text = "Hi" -> <<"H", "i">>
      [] text = "x" -> <<"x">>
      [] text = "" -> <<>>
      [] text = DefaultText ->
            <<"D", "o", "u", "b", "l", "e", " ", "c", "l", "i", "c", "k", " ",
              "t", "o", " ", "e", "d", "i", "t">>

\* Mutant of CurrentAngle: the arc starts at angle 0.
CurrentAngle_FromZero(angle, progress) ==
    Fraction(progress.num * angle, progress.den)

\* part_001:296-297  -angleRad / 2 + progress * angleRad, in degrees
CurrentAngle(angle, progress) ==
    Add(StartAngle(angle), Fraction(progress.num * angle, progress.den))

\* part_001:291  index / Math.max(totalChars - 1, 1)
Progress(index, totalChars) ==
    Fraction(index, IF totalChars - 1 > 1 THEN totalChars - 1 ELSE 1)

\* part_001:290-310, 392-400  position and rotation of the character at
\* index of totalChars on the arc, which also places the characters of a
\* custom path
ArcPlacement(textLayer, index, totalChars) ==
    LET currentAngle == CurrentAngle(textLayer.warpAngle, Progress(index, totalChars))
    IN  [x |-> Along(textLayer.x, textLayer.warpRadius, "cos", currentAngle),
         y |-> Along(textLayer.y, textLayer.warpRadius, "sin", currentAngle),
         rotation |-> Add(currentAngle, Num(90))]

\* part_001:281-400  the characters the canvas draws for a layer along its
\* path: none unless the layer is warped and has a path; the model places
\* the characters of an arc and of a custom path
renderWarpedText(textLayer) ==
    IF ~textLayer.isWarped \/ textLayer.warpPath = <<>>
    THEN <<>>
    ELSE IF textLayer.warpPathType \in {"arc", "custom"}
    THEN [k \in 1..Len(Chars(textLayer.text)) |->
              ArcPlacement(textLayer, k - 1, Len(Chars(textLayer.text)))]
    ELSE [k \in 1..Len(Chars(textLayer.text)) |-> [kind |-> textLayer.warpPathType]]

-----------------------------------------------------------------------------
(* Specifications *)

\* Readings Date.now() can give at an event when the last reading was n: the
\* same millisecond or a later one.
ClockReadings(n) == IF n = 0 THEN {1} ELSE {n, n + 1}

\* The editor under every event, a few events deep.  Clicks that only move
\* the selection are not counted.
Next ==
    \/ nEvents < MaxEvents /\ \E t \in ClockReadings(now) : addText(t)
    \/ nEvents < MaxEvents /\ deleteText
    \/ nEvents < MaxEvents /\ toggleLock
    \/ nEvents < MaxEvents /\ \E i \in 1..Len(textLayers), p \in DragPoints : onDragEnd(i, p)
    \/ nEvents < MaxEvents /\ \E i \in 1..Len(textLayers), t \in TransformEnds : onTransformEnd(i, t)
    \/ \E i \in 1..Len(textLayers), multi \in BOOLEAN : canvasClick(i, multi)
    \/ \E id \in LayerIds(textLayers) : selectLayer(id)
    \/ nEvents < MaxEvents /\ undo
    \/ nEvents < MaxEvents /\ redo
    \/ nEvents < MaxEvents /\ manualSave
    \/ nEvents < MaxEvents /\ autosaveFire
    \/ nEvents < MaxEvents /\ resetDesign
    \/ nEvents < MaxEvents /\ \E img \in Images : mountEditor(img)

Spec == Init /\ [][Next]_vars

\* The history filled to its cap: the user adds one layer and locks and
\* unlocks it until the history is full, and from then on also undoes,
\* redoes, saves, resets and comes back to the same image.
HistoryFull == Len(history) = HistoryCap

CapNext ==
    \/ nEvents < CapEvents /\ Len(textLayers) = 0 /\ \E t \in ClockReadings(now) : addText(t)
    \/ nEvents < CapEvents /\ hasSelection(selectedIds) /\ toggleLock
    \/ \E id \in LayerIds(textLayers) : selectLayer(id)
    \/ \E i \in 1..Len(textLayers) : canvasClick(i, FALSE)
    \/ nEvents < CapEvents /\ HistoryFull /\ undo
    \/ nEvents < CapEvents /\ HistoryFull /\ redo
    \/ nEvents < CapEvents /\ HistoryFull /\ manualSave
    \/ nEvents < CapEvents /\ HistoryFull /\ resetDesign
    \/ nEvents < CapEvents /\ HistoryFull /\ mountEditor(FirstImage)

CapSpec == Init /\ [][CapNext]_vars

\* The reconciliation effect over its input space: any collection of up to
\* MaxLayers layers with ids up to MaxId and any set of such ids as the
\* selection; the effect runs, and runs again on its own result.
LayerCollections ==
    UNION {{[i \in 1..n |-> NewText(ids[i], defaultTextStyle)] : ids \in [1..n -> 1..MaxId]}
              : n \in 0..MaxLayers}

RecInit ==
    /\ textLayers \in LayerCollections
    /\ selectedIds \in SUBSET (1..MaxId)
    /\ textStyle = defaultTextStyle
    /\ history = EmptyHistory
    /\ currentStep = 0
    /\ isUndoRedoAction = FALSE
    /\ image = FirstImage
    /\ autosaveTimeout = <<>>
    /\ storage = <<>>
    /\ now = MaxId
    /\ lastOp = "render"
    /\ took = TRUE
    /\ run = NoRun
    /\ gesture = NoGesture
    /\ nEvents = 0
    /\ NoFonts
    /\ NoUploads

RecNext == nEvents < RecRuns /\ reconcileEffect

ReconcileSpec == RecInit /\ [][RecNext]_vars


\* The layer tools of the side panel: layers are added, restyled, selected,
\* dragged and undone, a few events deep.
LayerNext ==
    \/ nEvents < LayerEvents /\ \E t \in ClockReadings(now) : addText(t)
    \/ nEvents < LayerEvents /\ \E e \in StyleEdits : updateTextStyle(e[1], e[2])
    \/ nEvents < LayerEvents /\ \E t \in ClockReadings(now) : duplicateLayer(t)
    \/ nEvents < LayerEvents /\ toggleLock
    \/ nEvents < LayerEvents /\ moveLayerUp
    \/ nEvents < LayerEvents /\ moveLayerDown
    \/ nEvents < LayerEvents /\ bringToFront
    \/ nEvents < LayerEvents /\ sendToBack
    \/ nEvents < LayerEvents /\ \E i \in 1..Len(textLayers), p \in DragPoints : onDragEnd(i, p)
    \/ nEvents < LayerEvents /\ undo
    \/ \E i \in 1..Len(textLayers), multi \in BOOLEAN : canvasClick(i, multi)
    \/ \E id \in LayerIds(textLayers) : selectLayer(id)

LayerSpec == Init /\ [][LayerNext]_vars


\* The alignment tools on a design of three layers: the layers were added
\* one after the other (the second possibly within the clock reading of the
\* first) and dragged to coordinates of AlignCoords, which the history does
\* not show; any set of their ids is selected.
AlignIds == {<<1, 2, 3>>, <<1, 1, 2>>}

AddedLayers(ids) == [i \in 1..Len(ids) |-> NewText(ids[i], defaultTextStyle)]

AlignInit ==
    /\ \E ids \in AlignIds :
         /\ \E xs \in [1..3 -> AlignCoords], ys \in [1..3 -> AlignCoords] :
               textLayers = [i \in 1..3 |->
                               [AddedLayers(ids)[i] EXCEPT !.x = Num(xs[i]), !.y = Num(ys[i])]]
         /\ selectedIds \in SUBSET {ids[i] : i \in 1..3}
         /\ history = [k \in 1..4 |-> SubSeq(AddedLayers(ids), 1, k - 1)]
         /\ now = ids[3]
    /\ textStyle = defaultTextStyle
    /\ currentStep = 3
    /\ isUndoRedoAction = FALSE
    /\ image = FirstImage
    /\ autosaveTimeout = <<SaveData(textLayers, history, currentStep, image)>>
    /\ storage = <<>>
    /\ lastOp = "onDragEnd"
    /\ took = TRUE
    /\ run = NoRun
    /\ gesture = NoGesture
    /\ nEvents = 0
    /\ NoFonts
    /\ NoUploads

AlignNext ==
    \/ nEvents < AlignEvents /\ alignLayersHorizontally
    \/ nEvents < AlignEvents /\ alignLayersVertically

AlignSpec == AlignInit /\ [][AlignNext]_vars


\* Distribution is checked from the states it is used in: three or four
\* layers that were added one after the other (two of the four possibly
\* within one clock reading) and dragged to coordinates which the history
\* does not show; any set of their ids is selected.
DistributeIds == {<<1, 2, 3>>, <<1, 2, 3, 4>>, <<1, 1, 2, 3>>}
DistributeXs == {0, 10, 100}
DistributeYs == {0, 100}

DistributeInit ==
    /\ \E ids \in DistributeIds :
         /\ \E xs \in [1..Len(ids) -> DistributeXs], ys \in [1..Len(ids) -> DistributeYs] :
               textLayers = [i \in 1..Len(ids) |->
                               [AddedLayers(ids)[i] EXCEPT !.x = Num(xs[i]), !.y = Num(ys[i])]]
         /\ selectedIds \in SUBSET {ids[i] : i \in 1..Len(ids)}
         /\ history = [k \in 1..(Len(ids) + 1) |-> SubSeq(AddedLayers(ids), 1, k - 1)]
         /\ currentStep = Len(ids)
         /\ now = ids[Len(ids)]
    /\ textStyle = defaultTextStyle
    /\ isUndoRedoAction = FALSE
    /\ image = FirstImage
    /\ autosaveTimeout = <<SaveData(textLayers, history, currentStep, image)>>
    /\ storage = <<>>
    /\ lastOp = "onDragEnd"
    /\ took = TRUE
    /\ run = NoRun
    /\ gesture = NoGesture
    /\ nEvents = 0
    /\ NoFonts
    /\ NoUploads

DistributeNext ==
    \/ nEvents < DistributeEvents /\ distributeLayersEvenly
    \/ nEvents < DistributeEvents /\ distributeLayersVertically

DistributeSpec == DistributeInit /\ [][DistributeNext]_vars


\* Persistence is checked over sessions that start on what an earlier
\* session, of this or of a later release of the editor, has left in
\* localStorage: nothing, or the record of a design of one layer for the
\* first image or for an image of another width.
OtherVersion == "2.0"
WiderImage == [imageUrl |-> "a", imageWidth |-> 5, imageHeight |-> 3]
TallerImage == [imageUrl |-> "a", imageWidth |-> 4, imageHeight |-> 4]
PersistImages == Images \cup {WiderImage, TallerImage}

\* The layer of the stored design: added at clock reading 0
StoredLayer == NewText(0, defaultTextStyle)
StoredRecords ==
    {[SaveData(<<StoredLayer>>, << <<>>, <<StoredLayer>> >>, 1, img) EXCEPT !.version = v] :
        img \in {FirstImage, WiderImage}, v \in {"1.0", OtherVersion}}
StartStorage == {<<>>} \cup {<<Stringify(r)>> : r \in StoredRecords}

\* TextEditor.tsx:252-266, 562-578  the editor has mounted on the first
\* image: it has loaded what it found stored, and the autosave effect has
\* scheduled a save of the state it ended up with
PersistInit ==
    /\ \E store \in StartStorage :
          LET load == LoadFromLocalStorage(store, FirstImage)
          IN  /\ textLayers = load.textLayers
              /\ history = load.history
              /\ currentStep = load.currentStep
              /\ storage = load.storage
              /\ took = load.loaded
              /\ gesture = LoadGesture(store, load)
    /\ selectedIds = {}
    /\ textStyle = defaultTextStyle
    /\ isUndoRedoAction = FALSE
    /\ image = FirstImage
    /\ autosaveTimeout = AutosaveEffect(FALSE, textLayers, history, currentStep, image, <<>>)
    /\ now = 0
    /\ lastOp = "mountEditor"
    /\ run = NoRun
    /\ nEvents = 0
    /\ NoFonts
    /\ NoUploads

\* The timer expires on its own; every other event is the user's
PersistNext ==
    \/ nEvents < PersistEvents /\ \E t \in ClockReadings(now) : addText(t)
    \/ nEvents < PersistEvents /\ deleteText
    \/ nEvents < PersistEvents /\ \E i \in 1..Len(textLayers), p \in DragPoints : onDragEnd(i, p)
    \/ nEvents < PersistEvents /\ undo
    \/ nEvents < PersistEvents /\ redo
    \/ nEvents < PersistEvents /\ manualSave
    \/ nEvents < PersistEvents /\ resetDesign
    \/ nEvents < PersistEvents /\ \E img \in PersistImages : mountEditor(img)
    \/ autosaveFire

PersistSpec == PersistInit /\ [][PersistNext]_vars

\* setTimeout: a pending timer expires
PersistLiveSpec == PersistSpec /\ WF_vars(autosaveFire)


\* The font engine under uploads of two font names, load completions in
\* any order, removals and a switch of images.
FontNames == {"Lobster", "Anton"}

FontNext ==
    \/ nEvents < FontEvents /\ \E name \in FontNames, isValid \in BOOLEAN :
                                   uploadCustomFont(name, isValid)
    \/ nEvents < FontEvents /\ \E i \in 1..Len(fontLoads) : fontLoadResolves(i)
    \/ nEvents < FontEvents /\ \E i \in 1..Len(fontLoads) : fontLoadRejects(i)
    \/ nEvents < FontEvents /\ \E name \in FontNames : removeCustomFont(name)
    \/ nEvents < FontEvents /\ mountEditor(FirstImage)

FontSpec == Init /\ [][FontNext]_vars


\* The panel tools are checked from the states they are used in: three
\* layers that were added one after the other and dragged apart, of which
\* any were locked together afterwards (the one record after the adds), and
\* any set of which is selected.
PanelIds == <<1, 2, 3>>
PanelXs == <<10, 20, 30>>

PanelInit ==
    /\ \E lockedIds \in SUBSET {PanelIds[i] : i \in 1..3} :
          /\ textLayers = [i \in 1..3 |->
                             [AddedLayers(PanelIds)[i] EXCEPT
                                 !.x = Num(PanelXs[i]),
                                 !.locked = (PanelIds[i] \in lockedIds)]]
          /\ history = [k \in 1..4 |-> SubSeq(AddedLayers(PanelIds), 1, k - 1)]
                          \o (IF lockedIds = {} THEN <<>> ELSE <<textLayers>>)
    /\ selectedIds \in SUBSET {PanelIds[i] : i \in 1..3}
    /\ currentStep = Len(history) - 1
    /\ now = PanelIds[3]
    /\ textStyle = defaultTextStyle
    /\ isUndoRedoAction = FALSE
    /\ image = FirstImage
    /\ autosaveTimeout = <<SaveData(textLayers, history, currentStep, image)>>
    /\ storage = <<>>
    /\ lastOp = "canvasClick"
    /\ took = TRUE
    /\ run = NoRun
    /\ gesture = NoGesture
    /\ nEvents = 0
    /\ NoFonts
    /\ NoUploads

PanelNext ==
    \/ nEvents < PanelEvents /\ deleteText
    \/ nEvents < PanelEvents /\ \E e \in StyleEdits : updateTextStyle(e[1], e[2])
    \/ nEvents < PanelEvents /\ \E e \in InputEdits : geometryInput(e[1], e[2])
    \/ nEvents < PanelEvents /\ toggleWarp
    \/ nEvents < PanelEvents /\ alignLayersHorizontally
    \/ nEvents < PanelEvents /\ alignLayersVertically
    \/ nEvents < PanelEvents /\ distributeLayersEvenly
    \/ nEvents < PanelEvents /\ distributeLayersVertically
    \/ nEvents < PanelEvents /\ moveLayerUp
    \/ nEvents < PanelEvents /\ moveLayerDown
    \/ nEvents < PanelEvents /\ bringToFront
    \/ nEvents < PanelEvents /\ sendToBack
    \/ nEvents < PanelEvents /\ \E t \in ClockReadings(now) : duplicateLayer(t)
    \/ nEvents < PanelEvents /\ toggleLock
    \/ nEvents < PanelEvents /\ \E i \in 1..Len(textLayers), p \in DragPoints : onDragEnd(i, p)
    \/ nEvents < PanelEvents /\ \E i \in 1..Len(textLayers), t \in TransformEnds : onTransformEnd(i, t)

PanelSpec == PanelInit /\ [][PanelNext]_vars



\* The image loader is checked on the upload page, before an editor is
\* mounted: the user hands it files of every kind, also while earlier files
\* are still being processed, and the browser completes the decoding and the
\* reading of each file in any order.
PngFile(bitmap, readable) ==
    [type |-> "image/png", ext |-> "png", size |-> 1, content |-> "bytes",
     bitmap |-> bitmap, readable |-> readable]
\* The decoded picture of a file's content: <<>> if the content is no image
Bitmaps == {<<>>, <<4, 3>>, <<2, 2>>}
Files ==
    {PngFile(b, r) : b \in Bitmaps, r \in BOOLEAN}
       \cup {[PngFile(<<4, 3>>, TRUE) EXCEPT !.type = "image/jpeg", !.ext = "jpg"],
             [PngFile(<<4, 3>>, TRUE) EXCEPT !.ext = "jpg"],
             [PngFile(<<4, 3>>, TRUE) EXCEPT !.ext = "PNG"],
             [PngFile(<<4, 3>>, TRUE) EXCEPT !.size = maxSize * BytesPerMB],
             [PngFile(<<4, 3>>, TRUE) EXCEPT !.size = maxSize * BytesPerMB + 1]}

\* part_000:16-17, 48-55  the page shows the uploader; no editor is mounted
\* and the editor's state is what its construction will give it
UploadInit ==
    /\ textLayers = <<>>
    /\ selectedIds = {}
    /\ textStyle = defaultTextStyle
    /\ history = EmptyHistory
    /\ currentStep = 0
    /\ isUndoRedoAction = FALSE
    /\ image = FirstImage
    /\ autosaveTimeout = <<>>
    /\ storage = <<>>
    /\ now = 0
    /\ lastOp = "page"
    /\ took = TRUE
    /\ run = NoRun
    /\ gesture = NoGesture
    /\ nEvents = 0
    /\ NoFonts
    /\ NoUploads

DecodeDone == \E i \in 1..Len(uploads) : imgOnload(i)
DecodeFailed == \E i \in 1..Len(uploads) : imgError(i)
ReadDone == \E i \in 1..Len(uploads) : readerOnload(i)
ReadFailed == \E i \in 1..Len(uploads) : readerError(i)

UploadNext ==
    \/ Len(uploads) < MaxUploads /\ \E file \in Files : handleFile(file)
    \/ DecodeDone
    \/ DecodeFailed
    \/ ReadDone
    \/ ReadFailed

UploadSpec == UploadInit /\ [][UploadNext]_vars

\* The browser delivers the completion, or the failure, of every decoding
\* and of every read it has been asked for
UploadLiveSpec ==
    /\ UploadSpec
    /\ WF_vars(DecodeDone) /\ WF_vars(DecodeFailed)
    /\ WF_vars(ReadDone) /\ WF_vars(ReadFailed)


\* The warp and property inputs are checked on three layers that were added
\* one after the other and dragged apart; the first of them is warped along
\* its default arc or not (the one record after the adds), and any set of
\* the layers is selected.
WarpIds == <<1, 2, 3>>
WarpXs == <<10, 20, 30>>

WarpInit ==
    /\ \E warped \in BOOLEAN :
          LET dragged == [i \in 1..3 |-> [AddedLayers(WarpIds)[i] EXCEPT !.x = Num(WarpXs[i])]]
          IN  /\ textLayers = IF warped
                              THEN [dragged EXCEPT ![1] = ToggleWarpLayer(dragged[1])]
                              ELSE dragged
              /\ history = [k \in 1..4 |-> SubSeq(AddedLayers(WarpIds), 1, k - 1)]
                              \o (IF warped THEN <<textLayers>> ELSE <<>>)
    /\ selectedIds \in SUBSET {WarpIds[i] : i \in 1..3}
    /\ currentStep = Len(history) - 1
    /\ now = WarpIds[3]
    /\ textStyle = defaultTextStyle
    /\ isUndoRedoAction = FALSE
    /\ image = FirstImage
    /\ autosaveTimeout = <<SaveData(textLayers, history, currentStep, image)>>
    /\ storage = <<>>
    /\ lastOp = "canvasClick"
    /\ took = TRUE
    /\ run = NoRun
    /\ gesture = NoGesture
    /\ nEvents = 0
    /\ NoFonts
    /\ NoUploads

WarpNext ==
    \/ nEvents < WarpEvents /\ toggleWarp
    \/ nEvents < WarpEvents /\ \E pathType \in PathTypes : setWarpPath(pathType)
    \/ nEvents < WarpEvents /\ \E e \in WarpEdits : updateWarpProperty(e[1], e[2])
    \/ nEvents < WarpEvents /\ \E e \in StyleEdits : updateTextStyle(e[1], e[2])
    \/ nEvents < WarpEvents /\ \E e \in ShadowEdits : updateTextShadow(e[1], e[2])
    \/ nEvents < WarpEvents /\ \E color \in HintColors : updateSpacingHintColor(color)
    \/ nEvents < WarpEvents /\ \E opacity \in HintOpacities : updateSpacingHintOpacity(opacity)
    \/ nEvents < WarpEvents /\ \E value \in TextEdits : updateTextContent(value)
    \/ nEvents < WarpEvents /\ \E t \in ClockReadings(now) : addText(t)
    \/ nEvents < WarpEvents /\ \E t \in ClockReadings(now) : duplicateLayer(t)
    \/ nEvents < WarpEvents /\ undo
    \/ nEvents < WarpEvents /\ redo

WarpSpec == WarpInit /\ [][WarpNext]_vars


\* Loading is also checked on records for the first image that no save of
\* this editor has written (an edited or damaged item, or the item of
\* another release): records of the stored design whose cursor is in the
\* index range of its history of two snapshots (0, 1), one or two past it
\* (2, 3), and a record whose history is empty.
LoadCursors == {0, 1, 2, 3}
LoadRecords ==
    {SaveData(<<StoredLayer>>, << <<>>, <<StoredLayer>> >>, step, FirstImage) :
        step \in LoadCursors}
       \cup {SaveData(<<StoredLayer>>, <<>>, 0, FirstImage)}

\* The render that follows the installation of an undefined collection has
\* thrown: the editor is gone
Crashed == textLayers = Undefined

LoadInit ==
    /\ \E r \in LoadRecords :
          LET load == LoadFromLocalStorage(<<Stringify(r)>>, FirstImage)
          IN  /\ textLayers = load.textLayers
              /\ history = load.history
              /\ currentStep = load.currentStep
              /\ storage = load.storage
              /\ took = load.loaded
              /\ gesture = LoadGesture(<<Stringify(r)>>, load)
    /\ selectedIds = {}
    /\ textStyle = defaultTextStyle
    /\ isUndoRedoAction = FALSE
    /\ image = FirstImage
    /\ autosaveTimeout = AutosaveEffect(FALSE, textLayers, history, currentStep, image, <<>>)
    /\ now = 0
    /\ lastOp = "mountEditor"
    /\ run = NoRun
    /\ nEvents = 0
    /\ NoFonts
    /\ NoUploads

LoadNext ==
    \/ nEvents < LoadEvents /\ ~Crashed /\ \E t \in ClockReadings(now) : addText(t)
    \/ nEvents < LoadEvents /\ ~Crashed /\ undo
    \/ nEvents < LoadEvents /\ ~Crashed /\ redo
    \/ nEvents < LoadEvents /\ ~Crashed /\ manualSave
    \/ nEvents < LoadEvents /\ ~Crashed /\ mountEditor(FirstImage)
    \/ ~Crashed /\ autosaveFire

LoadSpec == LoadInit /\ [][LoadNext]_vars

-----------------------------------------------------------------------------
(* Properties *)

\* Events of handlers that hand their result to addToHistory
EditOps == {"addText", "deleteText", "toggleLock"}

\* The history the claims expect after a record of `layers` at cursor `step`
Recorded(h, step, layers) ==
    LET pushed == Append(SubSeq(h, 1, step + 1), layers)
    IN  IF Len(pushed) > 20 THEN Tail(pushed) ELSE pushed

\* C1: the history never holds more than 20 entries; a record made when it
\* holds 20 with the cursor on the last entry drops exactly the oldest entry,
\* keeps the other 19 in order, puts the new snapshot last and leaves the
\* cursor on it.
C1_HistoryCap ==
    /\ [](Len(history) <= 20)
    /\ [][(/\ lastOp' \in EditOps /\ took'
           /\ ~isUndoRedoAction
           /\ Len(history) = 20 /\ currentStep = 19)
          => /\ Len(history') = 20
             /\ \A k \in 1..19 : history'[k] = history[k + 1]
             /\ history'[20] = textLayers'
             /\ currentStep' = 19]_vars

\* C1 witness: the initial empty snapshot has been evicted by the record of
\* the last edit, which sits last under the cursor.
C1_Witness ==
    /\ lastOp = "toggleLock" /\ took
    /\ Len(history) = 20 /\ currentStep = 19
    /\ history[1] # <<>>
    /\ history[20] = textLayers
    /\ nEvents = 21

\* C2: after N edits followed by N undos the layer collection is the one
\* before the first of the N edits.
C2_UndoRestoresRun ==
    run.undos > 0 => textLayers = run.bases[Len(run.bases) - run.undos + 1]

\* C3: an edit that takes effect is recorded: afterwards the snapshot under
\* the cursor is the live collection and the cursor is on the last entry, so
\* redo is not available; this includes the first edit after an undo or redo.
C3_EditRecorded ==
    (lastOp \in EditOps /\ took)
        => /\ HistoryAt(history, currentStep) = textLayers
           /\ currentStep = Len(history) - 1

\* C4: with the cursor above 0, undo moves the cursor down by one, installs
\* the snapshot at the new cursor, sets the replay flag and empties the
\* selection; redo mirrors it with the cursor below Len(history) - 1.
C4_UndoRedoStep ==
    [][/\ (lastOp' = "undo" /\ currentStep > 0)
            => /\ currentStep' = currentStep - 1
               /\ textLayers' = history[currentStep]
               /\ isUndoRedoAction'
               /\ selectedIds' = {}
       /\ (lastOp' = "redo" /\ currentStep < Len(history) - 1)
            => /\ currentStep' = currentStep + 1
               /\ textLayers' = history[currentStep + 2]
               /\ isUndoRedoAction'
               /\ selectedIds' = {}]_vars

\* C4 witness: a redo that took effect on a design with a layer, after an
\* undo made it available.
C4_Witness ==
    /\ lastOp = "redo" /\ took
    /\ currentStep >= 1
    /\ Len(textLayers) >= 1
    /\ isUndoRedoAction
    /\ selectedIds = {}

\* C5: undo and redo leave the history sequence as it is.
C5_ReplayKeepsHistory ==
    [][lastOp' \in {"undo", "redo"} => history' = history]_vars

\* C5 witness: an undo took effect and the undone entry is still in the
\* history, above the cursor.
C5_Witness ==
    /\ lastOp = "undo" /\ took
    /\ Len(history) = 3
    /\ currentStep = 1
    /\ textLayers = history[2]

\* C6: undo at cursor 0 and redo on the last entry change neither the layer
\* collection, nor the history, the cursor, the selection or the replay flag.
C6_BoundaryNoOp ==
    [][(\/ lastOp' = "undo" /\ currentStep = 0
        \/ lastOp' = "redo" /\ currentStep = Len(history) - 1)
       => UNCHANGED <<textLayers, history, currentStep, selectedIds,
                      isUndoRedoAction>>]_vars

\* C6 witness: a redo refused on the last entry, with a layer selected.
C6_Witness ==
    /\ lastOp = "redo" /\ ~took
    /\ currentStep = Len(history) - 1
    /\ Len(textLayers) >= 1
    /\ selectedIds # {}

\* C7: the history is never empty and the cursor is an index into it.
C7_CursorValid ==
    /\ Len(history) >= 1
    /\ currentStep >= 0
    /\ currentStep <= Len(history) - 1

\* C7 witness: a full history whose oldest entry was evicted has been saved
\* and restored by a new mount.
C7_Witness ==
    /\ lastOp = "mountEditor" /\ took
    /\ Len(history) = 20 /\ currentStep = 19
    /\ history[1] # <<>>

\* C8: an undo right after a canvas gesture restores the collection from
\* before the gesture, and a redo after that the collection the gesture left.
C8_GestureTracked ==
    /\ gesture.phase = "undone" => textLayers = gesture.before
    /\ gesture.phase = "redone" => textLayers = gesture.after

\* C9: every selected id is the id of a layer of the live collection.
C9_SelectionValid ==
    \A id \in selectedIds : \E i \in 1..Len(textLayers) : textLayers[i].id = id

\* C9 witness: a layer was deleted while another one stays, and a layer is
\* selected again afterwards.
C9_Witness ==
    /\ lastOp \in {"canvasClick", "selectLayer"}
    /\ selectedIds # {}
    /\ Len(textLayers) = 1
    /\ Len(history) = 4
    /\ Len(history[3]) = 2

\* C10: deleteText with a selection removes exactly the selected layers,
\* keeps the others unchanged in order, leaves no deleted id selected and
\* records the result; with an empty selection it changes nothing.
C10_DeleteText ==
    [][lastOp' = "deleteText"
       => IF selectedIds # {}
          THEN /\ textLayers' = SelectSeq(textLayers, LAMBDA l : l.id \notin selectedIds)
               /\ selectedIds' \cap selectedIds = {}
               /\ history' = Recorded(history, currentStep, textLayers')
               /\ currentStep' = Len(history') - 1
          ELSE UNCHANGED <<textLayers, selectedIds, history, currentStep,
                           isUndoRedoAction>>]_vars

\* C11: a run of the reconciliation effect drops exactly the selected ids
\* that no layer of the collection carries and keeps all others, a second
\* run on its result changes nothing, and no run changes the collection, the
\* history or the cursor.
C11_ReconcileExact ==
    [][lastOp' = "reconcile"
       => /\ selectedIds' = {id \in selectedIds :
                                \E i \in 1..Len(textLayers) : textLayers[i].id = id}
          /\ (lastOp = "reconcile" => selectedIds' = selectedIds)
          /\ UNCHANGED <<textLayers, history, currentStep>>]_vars

\* C11 witness: a run dropped an absent id and kept a present one.
C11_Witness ==
    /\ lastOp = "reconcile" /\ took
    /\ nEvents = 1
    /\ selectedIds # {}
    /\ \A id \in selectedIds : \E i \in 1..Len(textLayers) : textLayers[i].id = id


\* C12: a click on an unlocked layer of the canvas without the modifier, and
\* a click on an entry of the layer list, make the selection exactly the
\* clicked id; a click with the modifier removes the id if it was selected,
\* adds it if it was not, and leaves the membership of every other id as it
\* was.  No click changes the collection, the history or the cursor.
C12_SelectSemantics ==
    [][/\ \A i \in 1..Len(textLayers) : \A multi \in BOOLEAN :
            (canvasClick(i, multi) /\ ~textLayers[i].locked)
                => LET id == textLayers[i].id
                   IN  /\ ~multi => selectedIds' = {id}
                       /\ multi => /\ id \in selectedIds' <=> id \notin selectedIds
                                   /\ selectedIds' \ {id} = selectedIds \ {id}
                       /\ UNCHANGED <<textLayers, history, currentStep>>
       /\ \A i \in 1..Len(textLayers) :
            selectLayer(textLayers[i].id)
                => /\ selectedIds' = {textLayers[i].id}
                   /\ UNCHANGED <<textLayers, history, currentStep>>]_vars

\* C12 witness: a click with the modifier has added a second id to the
\* selection.
C12_Witness ==
    /\ lastOp = "canvasClick" /\ took
    /\ Cardinality(selectedIds) = 2
    /\ Len(textLayers) >= 2


\* C13: addText appends one layer after the existing ones, which stay as they
\* are; the new layer is at (50, 50), unlocked, not warped, carries the
\* style fields of the style template, and its id is the only selected id.
C13_AddText ==
    [][lastOp' = "addText"
       => /\ Len(textLayers') = Len(textLayers) + 1
          /\ SubSeq(textLayers', 1, Len(textLayers)) = textLayers
          /\ LET new == textLayers'[Len(textLayers')]
             IN  /\ new.x = [num |-> 50, den |-> 1]
                 /\ new.y = [num |-> 50, den |-> 1]
                 /\ ~new.locked
                 /\ ~new.isWarped
                 /\ new.fill = textStyle.fill
                 /\ new.fontWeight = textStyle.fontWeight
                 /\ selectedIds' = {new.id}]_vars

\* C13 witness: a second layer was added after the style template had been
\* changed, and carries the changed style.
C13_Witness ==
    /\ lastOp = "addText"
    /\ Len(textLayers) = 2
    /\ textLayers[2].fill = "#000000"
    /\ textLayers[2].fill # textLayers[1].fill
    /\ selectedIds = {textLayers[2].id}


\* C14: no two layers of the live collection share an id, and the id of a
\* layer created by addText or duplicateLayer is carried by no layer of the
\* collection or of any recorded snapshot.
C14_IdsUnique ==
    /\ [](\A i, j \in 1..Len(textLayers) : i # j => textLayers[i].id # textLayers[j].id)
    /\ [][(lastOp' \in {"addText", "duplicateLayer"} /\ took')
          => LET id == textLayers'[Len(textLayers')].id
             IN  /\ \A i \in 1..Len(textLayers) : textLayers[i].id # id
                 /\ \A k \in 1..Len(history) : \A i \in 1..Len(history[k]) :
                        history[k][i].id # id]_vars

\* C15: duplicateLayer with exactly one selected layer appends a clone with
\* another id than its source, at the source's x + 20 and y + 20, unlocked,
\* with the source's other fields; every existing layer stays as it is and
\* the clone's id is the only selected id.
C15_DuplicateLayer ==
    [][(lastOp' = "duplicateLayer" /\ took')
       => \E s \in 1..Len(textLayers) :
            LET source == textLayers[s]
                clone == textLayers'[Len(textLayers')]
            IN  /\ selectedIds = {source.id}
                /\ Len(textLayers') = Len(textLayers) + 1
                /\ SubSeq(textLayers', 1, Len(textLayers)) = textLayers
                /\ clone.id # source.id
                /\ clone.x = [num |-> source.x.num + 20 * source.x.den, den |-> source.x.den]
                /\ clone.y = [num |-> source.y.num + 20 * source.y.den, den |-> source.y.den]
                /\ ~clone.locked
                /\ [clone EXCEPT !.id = source.id, !.x = source.x, !.y = source.y,
                                 !.locked = source.locked] = source
                /\ selectedIds' = {clone.id}]_vars


\* C16: toggleLock unlocks every selected layer when all of them are locked
\* and locks every selected layer otherwise; it changes nothing else of a
\* selected layer and nothing of an unselected one.
C16_ToggleLockGroup ==
    [][(lastOp' = "toggleLock" /\ took')
       => LET allLocked == \A i \in 1..Len(textLayers) :
                              textLayers[i].id \in selectedIds => textLayers[i].locked
          IN  /\ Len(textLayers') = Len(textLayers)
              /\ \A i \in 1..Len(textLayers) :
                    IF textLayers[i].id \in selectedIds
                    THEN /\ textLayers'[i].locked = ~allLocked
                         /\ [textLayers'[i] EXCEPT !.locked = textLayers[i].locked]
                                = textLayers[i]
                    ELSE textLayers'[i] = textLayers[i]]_vars

\* C16 witness: two selected layers, one locked and one not in the snapshot
\* before, are both locked after toggleLock.
C16_Witness ==
    /\ lastOp = "toggleLock" /\ took
    /\ ~isUndoRedoAction
    /\ Len(textLayers) = 2
    /\ selectedIds = {textLayers[1].id, textLayers[2].id}
    /\ textLayers[1].id # textLayers[2].id
    /\ textLayers[1].locked /\ textLayers[2].locked
    /\ currentStep >= 1
    /\ Len(history[currentStep]) = 2
    /\ history[currentStep][1].locked # history[currentStep][2].locked

\* Events of the reorder handlers
ReorderOps == {"moveLayerUp", "moveLayerDown", "bringToFront", "sendToBack"}

\* C17: a reorder request while the single selected layer is locked, or while
\* the selection is not a single id, leaves the collection, the history and
\* the cursor as they are.
C17_ReorderNeedsUnlocked ==
    [][(/\ lastOp' \in ReorderOps
        /\ \/ Cardinality(selectedIds) # 1
           \/ \E i \in 1..Len(textLayers) :
                 textLayers[i].id \in selectedIds /\ textLayers[i].locked)
       => UNCHANGED <<textLayers, history, currentStep>>]_vars

\* The layers of a collection as a bag
LayerBag(layers) ==
    [l \in {layers[i] : i \in 1..Len(layers)} |->
        Cardinality({i \in 1..Len(layers) : layers[i] = l})]

\* C18: a reorder that takes effect leaves the selection and the layers
\* themselves as they are (the new collection is a permutation of the old
\* one); moveLayerUp / moveLayerDown exchange the selected layer with its
\* neighbour below / above and move no other layer; bringToFront /
\* sendToBack put it last / first and keep the order of the others.
C18_ReorderPermutes ==
    [][(lastOp' \in ReorderOps /\ took')
       => \E s \in 1..Len(textLayers) :
            LET others(layers, k) == [i \in 1..(Len(layers) - 1) |->
                                        IF i < k THEN layers[i] ELSE layers[i + 1]]
                n == Len(textLayers)
            IN  /\ selectedIds = {textLayers[s].id}
                /\ selectedIds' = selectedIds
                /\ Len(textLayers') = n
                /\ LayerBag(textLayers') = LayerBag(textLayers)
                /\ lastOp' = "moveLayerUp" =>
                      /\ s > 1
                      /\ textLayers'[s - 1] = textLayers[s]
                      /\ textLayers'[s] = textLayers[s - 1]
                      /\ \A i \in 1..n : i \notin {s - 1, s} => textLayers'[i] = textLayers[i]
                /\ lastOp' = "moveLayerDown" =>
                      /\ s < n
                      /\ textLayers'[s + 1] = textLayers[s]
                      /\ textLayers'[s] = textLayers[s + 1]
                      /\ \A i \in 1..n : i \notin {s, s + 1} => textLayers'[i] = textLayers[i]
                /\ lastOp' = "bringToFront" =>
                      /\ textLayers'[n] = textLayers[s]
                      /\ others(textLayers', n) = others(textLayers, s)
                /\ lastOp' = "sendToBack" =>
                      /\ textLayers'[1] = textLayers[s]
                      /\ others(textLayers', 1) = others(textLayers, s)]_vars


\* The values of one coordinate of the layers whose id is selected
SelectedCoords(layers, sel, axis) ==
    LET selected == SelectSeq(layers, LAMBDA l : l.id \in sel)
    IN  [i \in 1..Len(selected) |-> selected[i][axis]]

\* m is the arithmetic mean of the fractions vals: m * Len(vals) = sum of vals
RECURSIVE DenProduct(_)
DenProduct(vals) == IF vals = <<>> THEN 1 ELSE Head(vals).den * DenProduct(Tail(vals))
RECURSIVE ScaledSum(_, _)
ScaledSum(vals, d) ==
    IF vals = <<>> THEN 0
    ELSE Head(vals).num * (d \div Head(vals).den) + ScaledSum(Tail(vals), d)
IsMean(m, vals) ==
    m.num * DenProduct(vals) * Len(vals) = m.den * ScaledSum(vals, DenProduct(vals))

\* One alignment along `axis`, leaving `other` alone
Aligned(axis, other) ==
    IF Cardinality(selectedIds) >= 2
    THEN /\ Len(textLayers') = Len(textLayers)
         /\ \A i \in 1..Len(textLayers) :
               IF textLayers[i].id \in selectedIds
               THEN /\ IsMean(textLayers'[i][axis],
                              SelectedCoords(textLayers, selectedIds, axis))
                    /\ textLayers'[i][other] = textLayers[i][other]
                    /\ [textLayers'[i] EXCEPT ![axis] = textLayers[i][axis]] = textLayers[i]
               ELSE textLayers'[i] = textLayers[i]
    ELSE UNCHANGED <<textLayers, history, currentStep>>

\* C19: with two or more ids selected alignLayersHorizontally sets the x of
\* every selected layer to the arithmetic mean of the selected layers' x and
\* changes no y and no unselected layer; alignLayersVertically does the same
\* for y; with fewer than two selected both change and record nothing.
C19_AlignMean ==
    [][/\ lastOp' = "alignLayersHorizontally" => Aligned("x", "y")
       /\ lastOp' = "alignLayersVertically" => Aligned("y", "x")]_vars

\* C19 witness: alignLayersHorizontally moved two selected layers from
\* x = 10 and x = 20 onto x = 15 and left the third layer where it was.
C19_Witness ==
    /\ lastOp = "alignLayersHorizontally" /\ took
    /\ nEvents = 1
    /\ Cardinality(selectedIds) = 2
    /\ Len(run.bases) = 1
    /\ \E i, j, k \in 1..3 :
          /\ {i, j, k} = 1..3
          /\ textLayers[i].id \in selectedIds /\ textLayers[j].id \in selectedIds
          /\ textLayers[k].id \notin selectedIds
          /\ run.bases[1][i].x = [num |-> 10, den |-> 1]
          /\ run.bases[1][j].x = [num |-> 20, den |-> 1]
          /\ textLayers[i].x = [num |-> 15, den |-> 1]
          /\ textLayers[j].x = [num |-> 15, den |-> 1]
          /\ textLayers[k] = run.bases[1][k]

\* Three selected layers with y = 10, 20, 30
ThreeAtTenTwentyThirty ==
    /\ Len(textLayers) = 3
    /\ \A i \in 1..3 : textLayers[i].id \in selectedIds
    /\ {textLayers[i].y : i \in 1..3}
          = {[num |-> 10, den |-> 1], [num |-> 20, den |-> 1], [num |-> 30, den |-> 1]}

\* C20 as stated: alignLayersHorizontally on three selected layers with
\* y = 10, 20, 30 sets the y of all three to 20.
C20_AlignHorizontallySetsY ==
    [][(lastOp' = "alignLayersHorizontally" /\ ThreeAtTenTwentyThirty)
       => \A i \in 1..3 : textLayers'[i].y = [num |-> 20, den |-> 1]]_vars

\* C20 amended: on three selected layers with y = 10, 20, 30 it is
\* alignLayersVertically that sets the y of all three to 20;
\* alignLayersHorizontally leaves every y as it is.
C20_AlignVerticallySetsY ==
    [][ThreeAtTenTwentyThirty
       => /\ lastOp' = "alignLayersVertically"
             => \A i \in 1..3 : textLayers'[i].y = [num |-> 20, den |-> 1]
          /\ lastOp' = "alignLayersHorizontally"
             => \A i \in 1..3 : textLayers'[i].y = textLayers[i].y]_vars

\* C20 witness: alignLayersVertically has put three layers that were at
\* y = 10, 20, 30 on y = 20.
C20_Witness ==
    /\ lastOp = "alignLayersVertically" /\ took
    /\ nEvents = 1
    /\ Len(run.bases) = 1
    /\ {run.bases[1][i].y : i \in 1..3}
          = {[num |-> 10, den |-> 1], [num |-> 20, den |-> 1], [num |-> 30, den |-> 1]}
    /\ \A i \in 1..3 : textLayers[i].y = [num |-> 20, den |-> 1]


\* The indices of the layers whose id is selected
SelectedIndices(layers, sel) == {i \in 1..Len(layers) : layers[i].id \in sel}

\* One distribution along `axis`, leaving `other` alone: some order of the
\* selected layers by their old coordinate gives the layer at position k
\* (counted from 0) the coordinate first + k * (last - first) / (count - 1)
Distributed(axis, other) ==
    IF Cardinality(selectedIds) >= 3
    THEN LET S == SelectedIndices(textLayers, selectedIds)
             count == Cardinality(S)
         IN  /\ Len(textLayers') = Len(textLayers)
             /\ \A i \in 1..Len(textLayers) :
                   /\ [textLayers'[i] EXCEPT ![axis] = textLayers[i][axis]] = textLayers[i]
                   /\ i \notin S => textLayers'[i] = textLayers[i]
             /\ \E pos \in [S -> 0..(count - 1)] :
                   /\ \A i, j \in S : i # j => pos[i] # pos[j]
                   /\ \A i, j \in S : pos[i] < pos[j]
                         => ~Less(textLayers[j][axis], textLayers[i][axis])
                   /\ \E f, l \in S :
                         /\ pos[f] = 0 /\ pos[l] = count - 1
                         /\ \A i \in S :
                               textLayers'[i][axis]
                                  = Add(textLayers[f][axis],
                                        Over(Times(Sub(textLayers[l][axis], textLayers[f][axis]),
                                                   pos[i]),
                                             count - 1))
    ELSE UNCHANGED <<textLayers, history, currentStep>>

\* C21: with three or more selected layers distributeLayersEvenly sorts the
\* selected layers by x and puts the layer at sorted position i on
\* first + i * (last - first) / (count - 1), so that the smallest and the
\* largest x stay and the layers are equally spaced; y, the unselected
\* layers and the order of the collection stay as they are;
\* distributeLayersVertically does the same along y; with fewer than three
\* selected both change and record nothing.
C21_Distribute ==
    [][/\ lastOp' = "distributeLayersEvenly" => Distributed("x", "y")
       /\ lastOp' = "distributeLayersVertically" => Distributed("y", "x")]_vars

\* The same for collections whose ids are distinct
C21_DistributeDistinctIds ==
    [][(\A i, j \in 1..Len(textLayers) : i # j => textLayers[i].id # textLayers[j].id)
       => /\ lastOp' = "distributeLayersEvenly" => Distributed("x", "y")
          /\ lastOp' = "distributeLayersVertically" => Distributed("y", "x")]_vars

\* Three selected layers at x = 0, 10, 100 have been put on x = 0, 50, 100
C21_Example ==
    /\ lastOp = "distributeLayersEvenly" /\ took
    /\ nEvents = 1
    /\ Len(textLayers) = 3 /\ Cardinality(selectedIds) = 3
    /\ [i \in 1..3 |-> run.bases[1][i].x] = <<Num(0), Num(10), Num(100)>>
    /\ [i \in 1..3 |-> textLayers[i].x] = <<Num(0), Num(50), Num(100)>>


\* C22: a save of the current collection, history and cursor followed by a
\* load in a session on an image of the same url, width and height installs
\* the collection, history and cursor that were saved; and what a timer
\* writes loads as the data the timer carried.
C22_RoundTrip ==
    [][/\ (lastOp = "manualSave" /\ lastOp' = "mountEditor" /\ image' = image)
          => /\ textLayers' = textLayers
             /\ history' = history
             /\ currentStep' = currentStep
       /\ lastOp' = "autosaveFire"
          => \E i \in 1..Len(autosaveTimeout) :
                LET data == autosaveTimeout[i]
                    load == LoadFromLocalStorage(storage',
                                [imageUrl |-> data.imageUrl, imageWidth |-> data.imageWidth,
                                 imageHeight |-> data.imageHeight])
                IN  /\ load.loaded
                    /\ load.textLayers = data.textLayers
                    /\ load.history = data.history
                    /\ load.currentStep = data.currentStep]_vars

\* C22 witness: a session has started with a layer that was added and saved
\* in the session before it, with the history and the cursor of that session.
C22_Witness ==
    /\ lastOp = "mountEditor" /\ took
    /\ nEvents >= 3
    /\ \E i \in 1..Len(textLayers) : textLayers[i].id >= 1
    /\ currentStep >= 1
    /\ history[currentStep + 1] = textLayers

\* C23: a load that finds a record whose image url, width or height differs
\* from the session's installs nothing (no layers, the history of one empty
\* snapshot, cursor 0) and removes the record.
C23_MismatchDiscards ==
    [][(/\ lastOp' = "mountEditor"
        /\ storage # <<>>
        /\ LET parsed == Parse(storage[1])
           IN  \/ parsed.imageUrl # image'.imageUrl
               \/ parsed.imageWidth # image'.imageWidth
               \/ parsed.imageHeight # image'.imageHeight)
       => /\ textLayers' = <<>>
          /\ history' = << <<>> >>
          /\ currentStep' = 0
          /\ storage' = <<>>]_vars

\* C23 witness: a session on the image of another width has found the record
\* of a design with a layer, has discarded it and has started empty.
C23_Witness ==
    /\ lastOp = "mountEditor" /\ ~took
    /\ gesture.phase = "discarded"
    /\ image = WiderImage
    /\ nEvents >= 3
    /\ textLayers = <<>> /\ history = << <<>> >> /\ currentStep = 0
    /\ storage = <<>>


\* C24: a load that finds a record whose schema version is not the editor's
\* ('1.0', TextEditor.tsx:417) discards the record and starts from the empty
\* state, also when the record's image is the session's.
C24_VersionDiscards ==
    [][(/\ lastOp' = "mountEditor"
        /\ storage # <<>>
        /\ Parse(storage[1]).version # "1.0")
       => /\ textLayers' = <<>>
          /\ history' = << <<>> >>
          /\ currentStep' = 0
          /\ storage' = <<>>]_vars


\* The events that change the live layers, history or cursor
ChangeOps == EditOps \cup {"onDragEnd", "onTransformEnd", "undo", "redo"}

\* The data a timer carries when it was started for the state given
TimerFor(layers, h, step, img) ==
    [textLayers |-> layers, history |-> h, currentStep |-> step,
     imageUrl |-> img.imageUrl, imageWidth |-> img.imageWidth,
     imageHeight |-> img.imageHeight, version |-> "1.0"]

\* C25: at most one autosave timer is pending at any time; every change of
\* the layers, history or cursor cancels the pending timer and starts one
\* that carries the state of that change, so that the one write after a
\* burst of changes carries the state of the last change of the burst; and
\* an edit writes nothing itself.
C25_Coalesced ==
    [][/\ Len(autosaveTimeout') <= 1
       /\ (lastOp' \in ChangeOps /\ took')
          => /\ autosaveTimeout' = <<TimerFor(textLayers', history', currentStep', image')>>
             /\ storage' = storage]_vars

\* The stored record holds the live layers, history and cursor
StorageLive ==
    /\ storage # <<>>
    /\ LET parsed == Parse(storage[1])
       IN  /\ parsed.textLayers = textLayers
           /\ parsed.history = history
           /\ parsed.currentStep = currentStep

\* C26: after a change of the live layers, history or cursor that is
\* followed by no further event of the user, a write that carries the
\* resulting layers, history and cursor reaches storage.
C26_ChangeReachesStorage ==
    (lastOp \in ChangeOps /\ took)
       ~> (StorageLive \/ lastOp \notin (ChangeOps \cup {"autosaveFire"}))

\* C27: a switch of images leaves no timer of the abandoned session pending
\* (the only pending timer is the one the new session has started for its
\* own state), clears the selection, and starts the new session empty or
\* with the layers, history and cursor of a stored record of its own image.
C27_SwitchCancels ==
    [][lastOp' = "mountEditor"
       => /\ \A i \in 1..Len(autosaveTimeout') :
                autosaveTimeout'[i] = TimerFor(textLayers', history', currentStep', image')
          /\ selectedIds' = {}
          /\ \/ textLayers' = <<>> /\ history' = << <<>> >> /\ currentStep' = 0
             \/ /\ storage # <<>>
                /\ LET parsed == Parse(storage[1])
                   IN  /\ parsed.imageUrl = image'.imageUrl
                       /\ parsed.imageWidth = image'.imageWidth
                       /\ parsed.imageHeight = image'.imageHeight
                       /\ textLayers' = parsed.textLayers
                       /\ history' = parsed.history
                       /\ currentStep' = parsed.currentStep]_vars

\* C27 witness: the user has left a session that had a layer and a pending
\* save of it for another image: the new session is empty and its only
\* pending timer carries the empty design of the new image.
C27_Witness ==
    /\ lastOp = "mountEditor" /\ ~took
    /\ nEvents = 2
    /\ now = 1
    /\ image.imageUrl = "b"
    /\ textLayers = <<>> /\ selectedIds = {}
    /\ autosaveTimeout = <<TimerFor(<<>>, << <<>> >>, 0, image)>>


\* The number of faces of a family that are registered with the document
FacesOf(name) == Cardinality({i \in 1..Len(documentFonts) : documentFonts[i] = name})

\* C28: for every font family name at most one face is registered with the
\* document, whatever the order of uploads, ensure-loaded passes and load
\* completions.
C28_OneFacePerFamily == \A name \in FontNames : FacesOf(name) <= 1


\* The position and shape edits of C29
SingleLayerOps == {"geometryInput", "toggleWarp", "moveLayerUp", "moveLayerDown",
                   "bringToFront", "sendToBack", "duplicateLayer"}

\* C29: while two or more layers are selected, the position and shape edits
\* (x, y, rotation and scale inputs, warp toggle, reorder, duplicate) change
\* no layer and record nothing; only the shared-property edits and the
\* group operations take effect.
C29_MultiSelectGroupOnly ==
    [][(Cardinality(selectedIds) >= 2 /\ lastOp' \in SingleLayerOps)
       => UNCHANGED <<textLayers, history, currentStep>>]_vars

\* The editing operations of C30: all but the lock toggle
LockGuardedOps == {"onDragEnd", "onTransformEnd", "updateTextStyle", "geometryInput",
                   "alignLayersHorizontally", "alignLayersVertically",
                   "distributeLayersEvenly", "distributeLayersVertically",
                   "moveLayerUp", "moveLayerDown", "bringToFront", "sendToBack",
                   "toggleWarp", "deleteText", "duplicateLayer", "addText"}

\* C30: no editing operation other than the lock toggle changes a field of a
\* layer that is locked or removes it from the collection.
C30_LockedUnchanged ==
    [][lastOp' \in LockGuardedOps
       => \A i \in 1..Len(textLayers) :
             textLayers[i].locked
                => \E j \in 1..Len(textLayers') : textLayers'[j] = textLayers[i]]_vars



\* C31: resetDesign leaves the blank editor: no layers, no selection, the
\* history of one empty snapshot, cursor 0, replay flag cleared, the style
\* template at its defaults, no autosave timer of the design that was reset
\* pending and no saved record; and while the user changes nothing
\* afterwards, storage stays without a saved record.
C31_ResetBlank ==
    [][/\ lastOp' = "resetDesign"
          => /\ textLayers' = <<>>
             /\ selectedIds' = {}
             /\ history' = EmptyHistory
             /\ currentStep' = 0
             /\ ~isUndoRedoAction'
             /\ textStyle' = defaultTextStyle
             /\ \A i \in 1..Len(autosaveTimeout') :
                   autosaveTimeout'[i].textLayers = <<>>
             /\ storage' = <<>>
       /\ (lastOp = "resetDesign" /\ lastOp' = "autosaveFire")
          => storage' = <<>>]_vars


\* C32: every call of the image loader on a file ends in one of two ways:
\* the upload callback has received the image data, or an error has been
\* reported to the user; this holds also for a file that passes validation
\* and cannot be decoded.
C32_LoaderTerminates ==
    \A i \in 1..MaxUploads :
        (Len(uploads) >= i)
           ~> (Len(uploads) >= i /\ uploads[i].pc \in {"delivered", "reported"})


\* The point at deg degrees on the circle of the layer's radius around its
\* position
PointAt(layer, deg) ==
    [x |-> Along(layer.x, layer.warpRadius, "cos", deg),
     y |-> Along(layer.y, layer.warpRadius, "sin", deg)]

\* The character drawn at position k of the layer is at the point at deg
\* degrees, turned by deg + 90 degrees
PlacedAt(layer, k, deg) ==
    LET placed == renderWarpedText(layer)[k]
    IN  /\ placed.x = PointAt(layer, deg).x
        /\ placed.y = PointAt(layer, deg).y
        /\ placed.rotation = Fraction(deg.num + 90 * deg.den, deg.den)

\* The layers the canvas draws along an arc
OnArc(layer) == layer.isWarped /\ layer.warpPath # <<>> /\ layer.warpPathType = "arc"

\* C33: of a layer drawn along an arc of angle a and radius r around (x, y),
\* the first character (t = 0) is at the end of the arc at -a/2, the last
\* of two or more characters (t = 1) at the end at +a/2 and the middle one
\* of an odd number of three or more (t = 0.5) at angle 0, the point
\* (x + r, y); each is turned by the angle of its point plus 90 degrees.
C33_ArcPlacement ==
    \A i \in 1..Len(textLayers) :
        LET layer == textLayers[i]
            n == Len(renderWarpedText(layer))
        IN  OnArc(layer) =>
               /\ n >= 1 => PlacedAt(layer, 1, Fraction(-layer.warpAngle, 2))
               /\ n >= 2 => PlacedAt(layer, n, Fraction(layer.warpAngle, 2))
               /\ (n >= 3 /\ n % 2 = 1) =>
                     /\ PlacedAt(layer, (n + 1) \div 2, Num(0))
                     /\ renderWarpedText(layer)[(n + 1) \div 2].x
                           = Exact(Plus(layer.x, layer.warpRadius))
                     /\ renderWarpedText(layer)[(n + 1) \div 2].y = Exact(layer.y)

\* A layer of three characters is drawn along an arc of 360 degrees
C33_Witness ==
    \E i \in 1..Len(textLayers) :
        /\ OnArc(textLayers[i])
        /\ textLayers[i].text = "abc"
        /\ textLayers[i].warpAngle = 360
        /\ Len(renderWarpedText(textLayers[i])) = 3


\* The boundary of a reorder operation: the 0-based index at which the layer
\* the handler finds for the selected id cannot move further
AtBoundary(op) ==
    /\ SingleSelection
    /\ currentIndex >= 0
    /\ currentIndex = IF op \in {"moveLayerUp", "sendToBack"} THEN 0
                                                              ELSE Len(textLayers) - 1

\* C34: a reorder at the boundary (bringToFront or moveLayerDown on the last
\* index, sendToBack or moveLayerUp on index 0) leaves the layer collection,
\* the history and the cursor unchanged.
C34_BoundaryNoOp ==
    [][\A op \in ReorderOps :
          (lastOp' = op /\ AtBoundary(op))
             => UNCHANGED <<textLayers, history, currentStep>>]_vars

\* bringToFront was asked for the last of several layers
C34_Witness ==
    /\ lastOp = "bringToFront"
    /\ ~took
    /\ Len(textLayers) >= 2
    /\ AtBoundary("bringToFront")


\* C35: a load installs no cursor outside the index range of the history it
\* installs, and no undo or redo after a load reads a history entry that
\* does not exist.
C35_LoadedCursorInRange ==
    /\ (lastOp = "mountEditor" /\ took) => currentStep \in 0..(Len(history) - 1)
    /\ ~Crashed


\* The property updates of C36
PropertyOps == {"updateTextStyle", "updateTextShadow", "updateWarpProperty",
                "updateSpacingHintColor", "updateSpacingHintOpacity",
                "updateTextContent"}

\* The properties a property update can set; those of the text shadow are
\* named by their path
PropertyNames == {"fill", "fontWeight", "textShadow.color", "textShadow.blur",
                  "warpRadius", "warpAngle", "spacingHintColor",
                  "spacingHintOpacity", "text"}

\* The value of a property of a layer
PropertyOf(layer, name) ==
    CASE name = "textShadow.color" -> layer.textShadow.color
      [] name = "textShadow.blur" -> layer.textShadow.blur
      [] OTHER -> layer[name]

\* The new layer is the old one but for the one property named
SameButFor(old, new, name) ==
    /\ \A other \in PropertyNames \ {name} : PropertyOf(new, other) = PropertyOf(old, other)
    /\ \A field \in DOMAIN old \ (PropertyNames \cup {"textShadow"}) : new[field] = old[field]

C37_TimerWritesLiveState ==
    [][lastOp' = "autosaveFire"
       => /\ storage' # <<>>
          /\ Parse(storage'[1]).textLayers = textLayers'
          /\ Parse(storage'[1]).history = history'
          /\ Parse(storage'[1]).currentStep = currentStep']_vars


\* C38: undo immediately followed by redo is the identity on the layer
\* collection: whenever undo takes effect, redo is available right after it
\* and the snapshot redo installs is the collection from before the undo.
C38_UndoRedoIdentity ==
    [][(lastOp' = "undo" /\ canUndo(currentStep))
       => /\ canRedo(currentStep', history')
          /\ HistoryAt(history', RedoStep(currentStep')) = textLayers]_vars


\* part_001:573-574  the canvas draws a layer along its path when it is
\* warped and its path is not the empty string
RenderedAlongPath(textLayer) == textLayer.isWarped /\ textLayer.warpPath # <<>>

\* C39: every layer with the warp switched on has a path that is not empty,
\* so the canvas draws it along its path; this holds after addText,
\* toggleWarp, setWarpPath, duplicateLayer, undo and redo.
C39_WarpedHasPath ==
    \A i \in 1..Len(textLayers) :
        textLayers[i].isWarped
            => /\ textLayers[i].warpPath # <<>>
               /\ RenderedAlongPath(textLayers[i])

\* A warped layer has been given a custom path
C39_Witness ==
    /\ lastOp = "setWarpPath" /\ took
    /\ \E i \in 1..Len(textLayers) :
          /\ textLayers[i].isWarped
          /\ textLayers[i].warpPathType = "custom"
          /\ textLayers[i].warpPath # <<>>

=============================================================================
